---- MODULE Spec2Model ----
(***************************************************************************)
(* DisasterShield backend (backend/main.py, backend/database/*.py).        *)
(*                                                                         *)
(* The model follows one server process: a single asyncio event loop that  *)
(* runs the FastAPI handlers and the background task, the ingestion cycle  *)
(* fetch_and_classify_reddit_posts and the tweets table behind             *)
(* PostgreSQLDatabase.                                                     *)
(***************************************************************************)
EXTENDS Integers, Sequences, FiniteSets, TLC

(***************************************************************************)
(* Bounds of the model.                                                    *)
(***************************************************************************)
NumRequests == 2
NumChannels == 2
MaxListing == 1
MaxPostId == 2
MaxClock == 1
MaxHourly == 2

(***************************************************************************)
(* Text helpers: Python's str.lower(), `k in s`, str.strip() and the parts *)
(* of re.sub used by clean_reddit_text, on TLC strings.                    *)
(***************************************************************************)
Upper == "ABCDEFGHIJKLMNOPQRSTUVWXYZ"
Lowercase == "abcdefghijklmnopqrstuvwxyz"

LowerChar(c) ==
    IF \E i \in 1..Len(Upper) : SubSeq(Upper, i, i) = c
    THEN LET i == CHOOSE j \in 1..Len(Upper) : SubSeq(Upper, j, j) = c
         IN SubSeq(Lowercase, i, i)
    ELSE c

RECURSIVE Lower(_)
Lower(s) ==
    IF s = "" THEN ""
    ELSE LowerChar(SubSeq(s, 1, 1)) \o Lower(SubSeq(s, 2, Len(s)))

\* Python `k in s` for strings.
Contains(s, k) ==
    \E i \in 1..(Len(s) - Len(k) + 1) : SubSeq(s, i, i + Len(k) - 1) = k

StartsWith(s, k) == Len(s) >= Len(k) /\ SubSeq(s, 1, Len(k)) = k

EndsWith(s, k) == Len(s) >= Len(k) /\ SubSeq(s, Len(s) - Len(k) + 1, Len(s)) = k

RECURSIVE LStrip(_)
LStrip(s) ==
    IF s # "" /\ SubSeq(s, 1, 1) = " " THEN LStrip(SubSeq(s, 2, Len(s))) ELSE s

RECURSIVE RStrip(_)
RStrip(s) ==
    IF s # "" /\ SubSeq(s, Len(s), Len(s)) = " "
    THEN RStrip(SubSeq(s, 1, Len(s) - 1)) ELSE s

Strip(s) == LStrip(RStrip(s))

\* re.sub(r'\s+', ' ', s): every run of blanks becomes one blank.
RECURSIVE CollapseSpaces(_)
CollapseSpaces(s) ==
    IF Len(s) < 2 THEN s
    ELSE IF SubSeq(s, 1, 1) = " " /\ SubSeq(s, 2, 2) = " "
         THEN CollapseSpaces(SubSeq(s, 2, Len(s)))
         ELSE SubSeq(s, 1, 1) \o CollapseSpaces(SubSeq(s, 2, Len(s)))

\* re.sub(r'UTC|GMT|EST|PST|CST|MST', '', s): scanned left to right,
\* case-sensitive, matches do not overlap.
TimezoneAbbreviations == {"UTC", "GMT", "EST", "PST", "CST", "MST"}

RECURSIVE StripTimezones(_)
StripTimezones(s) ==
    IF Len(s) < 3 THEN s
    ELSE IF SubSeq(s, 1, 3) \in TimezoneAbbreviations
         THEN StripTimezones(SubSeq(s, 4, Len(s)))
         ELSE SubSeq(s, 1, 1) \o StripTimezones(SubSeq(s, 2, Len(s)))

\* re.sub(r'^(UPDATE|EDIT|BREAKING|URGENT):\s*', '', s, flags=re.IGNORECASE)
PrefixWords == <<"update:", "edit:", "breaking:", "urgent:">>

\* The text with its prefix kept.
StripPrefixKept(s) == s

StripPrefix(s) ==
    IF \E i \in 1..Len(PrefixWords) : StartsWith(Lower(s), PrefixWords[i])
    THEN LET i == CHOOSE j \in 1..Len(PrefixWords) :
                      StartsWith(Lower(s), PrefixWords[j])
         IN LStrip(SubSeq(s, Len(PrefixWords[i]) + 1, Len(s)))
    ELSE s

\* re.sub(r'\s*(x-post|crosspost|cross-post)\s*.*$', '', s, re.IGNORECASE):
\* the text is cut at the first marker, with the blanks before it.
CrosspostMarkers == {"x-post", "crosspost", "cross-post"}

CrosspostAt(s, i) ==
    \E k \in CrosspostMarkers : StartsWith(Lower(SubSeq(s, i, Len(s))), k)

StripCrosspost(s) ==
    IF \E i \in 1..Len(s) : CrosspostAt(s, i)
    THEN LET i == CHOOSE j \in 1..Len(s) :
                      CrosspostAt(s, j) /\ \A h \in 1..(j - 1) : ~CrosspostAt(s, h)
         IN RStrip(SubSeq(s, 1, i - 1))
    ELSE s

EndPunctuation == {".", "!", "?"}

(***************************************************************************)
(* clean_reddit_text as bound at module load: the second definition        *)
(* (main.py:294) replaces the first (main.py:194).  The substitutions for  *)
(* URLs, markdown markup, emojis and clock times only match text holding   *)
(* '/', '[', '*', '~', '`', non-ASCII symbols or digit groups with ':' and *)
(* '-'; the titles of this model hold none of them, so those steps leave   *)
(* them as they are.                                                       *)
(***************************************************************************)
clean_reddit_text(title, selftext) ==
    LET full0 == IF Strip(selftext) # "" THEN title \o " " \o selftext ELSE title
        full1 == CollapseSpaces(full0)
        full2 == StripTimezones(full1)
        full3 == StripCrosspost(StripPrefix(full2))
        full4 == Strip(full3)
    IN IF full4 # "" /\ SubSeq(full4, Len(full4), Len(full4)) \notin EndPunctuation
       THEN full4 \o "."
       ELSE full4

\* detect_disaster_category: the dict is scanned in insertion order.
Categories == <<
    <<"earthquake", {"earthquake", "seismic", "tremor", "quake", "magnitude", "richter", "epicenter"}>>,
    <<"flood", {"flood", "flooding", "deluge", "inundation", "overflow", "dam burst", "levee"}>>,
    <<"fire", {"wildfire", "forest fire", "bushfire", "fire", "blaze", "inferno", "burn"}>>,
    <<"storm", {"hurricane", "typhoon", "cyclone", "tornado", "storm", "tempest", "gale"}>>,
    <<"weather", {"heatwave", "blizzard", "drought", "extreme weather", "severe weather"}>>,
    <<"volcanic", {"volcano", "volcanic", "eruption", "lava", "ash cloud", "magma"}>>,
    <<"landslide", {"landslide", "mudslide", "avalanche", "rockslide", "debris flow"}>>,
    <<"tsunami", {"tsunami", "tidal wave", "seismic wave"}>> >>

CategoryMatches(text_lower, i) == \E k \in Categories[i][2] : Contains(text_lower, k)

detect_last_match(text) ==
    LET text_lower == Lower(text)
    IN IF \E i \in 1..Len(Categories) : CategoryMatches(text_lower, i)
       THEN Categories[CHOOSE i \in 1..Len(Categories) :
                           /\ CategoryMatches(text_lower, i)
                           /\ \A j \in (i + 1)..Len(Categories) :
                                 ~CategoryMatches(text_lower, j)][1]
       ELSE "general"

detect_disaster_category(text) ==
    LET text_lower == Lower(text)
    IN IF \E i \in 1..Len(Categories) : CategoryMatches(text_lower, i)
       THEN Categories[CHOOSE i \in 1..Len(Categories) :
                           /\ CategoryMatches(text_lower, i)
                           /\ \A j \in 1..(i - 1) : ~CategoryMatches(text_lower, j)][1]
       ELSE "general"

\* disaster_keywords of fetch_and_classify_reddit_posts.
disaster_keywords == {
    "earthquake", "tsunami", "flood", "wildfire", "hurricane", "tornado",
    "emergency", "evacuation", "disaster", "breaking", "storm", "cyclone",
    "landslide", "avalanche", "drought", "heatwave", "blizzard", "typhoon",
    "volcanic", "eruption", "mudslide", "sinkhole", "severe weather",
    "natural disaster", "climate emergency", "extreme weather" }

\* The length below which a cleaned text is skipped (main.py:537).
MinTextLen == 20


(***************************************************************************)
(* What the Reddit listings can hold.  A post is fetched with its current  *)
(* content: between two fetches of one id every field may have changed in  *)
(* the listing, so a variant differs from the others in each field.        *)
(* author "None" stands for Python's None (a deleted account).             *)
(***************************************************************************)
PostVariants == {
    [title |-> "BREAKING: Magnitude 6 earthquake confirmed", selftext |-> "",
     score |-> 120, num_comments |-> 4, author |-> "alice", created_utc |-> 1,
     preview |-> "https://preview.redd.it/quake.jpg", thumbnail |-> "default",
     url |-> "https://www.reddit.com/r/earthquakes/1"],
    [title |-> "Flood warning issued for the river valley", selftext |-> "",
     score |-> 7, num_comments |-> 0, author |-> "None", created_utc |-> 2,
     preview |-> "absent", thumbnail |-> "self",
     url |-> "https://i.redd.it/flood.png"],
    [title |-> "Storm", selftext |-> "",
     score |-> 1, num_comments |-> 1, author |-> "bob", created_utc |-> 3,
     preview |-> "absent", thumbnail |-> "https://b.thumbs.redditmedia.com/storm.jpg",
     url |-> "https://www.reddit.com/r/weather/3"],
    [title |-> "Cute cat picture of the day", selftext |-> "",
     score |-> 55, num_comments |-> 9, author |-> "carol", created_utc |-> 4,
     preview |-> "absent", thumbnail |-> "",
     url |-> "https://www.reddit.com/r/aww/4"] }

RawPosts ==
    { [id |-> i, title |-> v.title, selftext |-> v.selftext, score |-> v.score,
       num_comments |-> v.num_comments, author |-> v.author,
       created_utc |-> v.created_utc, preview |-> v.preview,
       thumbnail |-> v.thumbnail, url |-> v.url] : i \in 1..MaxPostId, v \in PostVariants }

\* subreddit.hot(limit=...): a page of posts, in listing order.
\* The pages of at most MaxListing posts a subreddit can serve out of posts.
Listings(posts) == UNION { [1..n -> posts] : n \in 0..MaxListing }

\* main.py:529-532, the keyword pre-filter on title and body.
HasDisasterKeyword(post) ==
    LET post_text == Lower(post.title \o " " \o post.selftext)
    IN \E keyword \in disaster_keywords : Contains(post_text, keyword)

\* main.py:532-538: a post is kept when it passes the keyword filter and its
\* cleaned text has at least MinTextLen characters.
\* The test of the keywords without the test of the length.
QualifiesAnyLength(post) == HasDisasterKeyword(post)

Qualifies(post) ==
    /\ HasDisasterKeyword(post)
    /\ Len(Strip(clean_reddit_text(post.title, post.selftext))) >= MinTextLen

\* main.py:556-567, post_data.
\* main.py:543-554: the image of a post is its preview image, else its
\* thumbnail when that is an http address, else its url when that ends in
\* an image extension, else None.  preview "absent" is a post without the
\* preview attribute.
ImageExtensions == {".jpg", ".jpeg", ".png", ".gif"}

ExtractImageUrl(post) ==
    IF post.preview # "absent" THEN post.preview
    ELSE IF post.thumbnail # "" /\ StartsWith(post.thumbnail, "http") THEN post.thumbnail
    ELSE IF post.url # "" /\ \E ext \in ImageExtensions : EndsWith(post.url, ext)
         THEN post.url
    ELSE "None"

PostData(post) ==
    LET cleaned_text == clean_reddit_text(post.title, post.selftext)
    IN [tweet_id |-> "reddit_" \o ToString(post.id),
        text |-> cleaned_text,
        username |-> IF post.author # "None" THEN "u/" \o post.author ELSE "u/deleted",
        user_followers |-> 0,
        tweet_timestamp |-> post.created_utc,
        likes |-> post.score,
        retweets |-> 0,
        replies |-> post.num_comments,
        category |-> detect_disaster_category(cleaned_text),
        image_url |-> ExtractImageUrl(post)]

\* The body of `for post in subreddit.hot(...)`: the entries appended to
\* all_posts for the posts iterated, in order.
\* Qualifies and PostData are functions of the post alone: their values on
\* the posts of the model, computed once.
KeptPosts == { post \in RawPosts : Qualifies(post) }

PostDataOf == [ post \in RawPosts |-> PostData(post) ]

\* The posts with a disaster keyword that `continue` skips for their length
\* (main.py:537-538).
ShortPosts == { post \in RawPosts : HasDisasterKeyword(post) /\ ~Qualifies(post) }

RECURSIVE Collect(_)
Collect(posts) ==
    IF posts = <<>> THEN <<>>
    ELSE IF Head(posts) \in KeptPosts
         THEN <<PostDataOf[Head(posts)]>> \o Collect(Tail(posts))
         ELSE Collect(Tail(posts))

(***************************************************************************)
(* main.py:577, {post['tweet_id']: post for post in all_posts}.values().   *)
(* A Python dict keeps a key at the place of its first insertion and       *)
(* replaces its value on a later insertion.                                *)
(***************************************************************************)
DictPutFirst(d, p) ==
    IF \E i \in 1..Len(d) : d[i].tweet_id = p.tweet_id THEN d ELSE Append(d, p)

DictPut(d, p) ==
    IF \E i \in 1..Len(d) : d[i].tweet_id = p.tweet_id
    THEN [i \in 1..Len(d) |-> IF d[i].tweet_id = p.tweet_id THEN p ELSE d[i]]
    ELSE Append(d, p)

RECURSIVE DictOf(_, _)
DictOf(posts, d) ==
    IF posts = <<>> THEN d ELSE DictOf(Tail(posts), DictPut(d, Head(posts)))

unique_posts_of(all_posts) == DictOf(all_posts, <<>>)

(***************************************************************************)
(* classify_text results, confidence in units of 0.00001.  The label and   *)
(* the confidence a call returns depend on the loaded model and on         *)
(* random.random(); the cycle takes any of these results.                  *)
(***************************************************************************)
ClassResults == {
    [label |-> "verified", confidence |-> 90000],
    [label |-> "rumor", confidence |-> 61237],
    [label |-> "unknown", confidence |-> 50000] }

\* main.py:584-589, db_data.
DbData(post_data, classification) ==
    [tweet_id |-> post_data.tweet_id,
     text |-> post_data.text,
     username |-> post_data.username,
     user_followers |-> post_data.user_followers,
     tweet_timestamp |-> post_data.tweet_timestamp,
     likes |-> post_data.likes,
     retweets |-> post_data.retweets,
     replies |-> post_data.replies,
     category |-> post_data.category,
     image_url |-> post_data.image_url,
     classification_label |-> classification.label,
     confidence_score |-> classification.confidence,
     model_version |-> "v2.0"]

(***************************************************************************)
(* classify_text and classify_text_keywords (main.py:361-495).             *)
(* A Python value given as text is a record: a str with its characters, or *)
(* a value of another type.  Confidence is in units of 0.00001.            *)
(***************************************************************************)
Str(s) == [type |-> "str", v |-> s]
NotAStr == [type |-> "NoneType", v |-> ""]

\* len(s.split()): the words of s, separated by blanks.
RECURSIVE WordCount(_)
WordCount(s) ==
    LET t == LStrip(s)
        RECURSIVE WordEnd(_)
        WordEnd(i) == IF i > Len(t) \/ SubSeq(t, i, i) = " " THEN i ELSE WordEnd(i + 1)
    IN IF t = "" THEN 0 ELSE 1 + WordCount(SubSeq(t, WordEnd(1), Len(t)))

\* Whether a keyword occurs, in place of how many do.
MatchesOnce(keywords, text_lower) ==
    IF \E keyword \in keywords : Contains(text_lower, keyword) THEN 1 ELSE 0

\* sum(1 for keyword in keywords if keyword in text_lower)
Matches(keywords, text_lower) ==
    Cardinality({ keyword \in keywords : Contains(text_lower, keyword) })

verified_keywords ==
    {"official", "usgs", "confirmed", "breaking", "emergency services",
     "authorities", "government", "fire department", "police", "fema",
     "national weather service", "earthquake", "magnitude", "evacuation",
     "nws", "noaa", "red cross", "emergency management", "disaster response",
     "first responders", "rescue teams", "meteorologist", "seismologist",
     "issued warning", "alert issued", "official statement", "press release"}

rumor_keywords ==
    {"fake", "rumor", "unconfirmed", "allegedly", "reports suggest",
     "conspiracy", "alien", "fabricated", "false information",
     "hoax", "misleading", "debunked", "unverified", "speculation",
     "claims without evidence", "social media reports", "viral video",
     "end times", "apocalypse", "government cover-up"}

official_sources == {"official", "government", "emergency"}
news_indicators == {"breaking", "reported", "according to", "sources say", "confirmed"}
uncertainty_indicators == {"might", "could", "possibly", "allegedly", "reportedly"}

MinUncapped(a, b) == b

Min(a, b) == IF a <= b THEN a ELSE b
Max(a, b) == IF a >= b THEN a ELSE b

\* random.random(): a value of [0.0, 1.0), here one of three.
RandomValues == {0, 50000, 99900}

ResultUnknown == [label |-> "unknown", confidence |-> 50000]

\* A text without keywords handled as a tie of the keyword counts.
NoMatchAsTie(text_lower, rnd) ==
    [label |-> "rumor", confidence |-> 50000 + (rnd * 15) \div 100]

\* main.py:448-470, no verified and no rumor keyword in the text.
NoMatchResult(text_lower, rnd) ==
    LET news_score == Matches(news_indicators, text_lower)
        uncertainty_score == Matches(uncertainty_indicators, text_lower)
    IN IF \E source \in official_sources : Contains(text_lower, source)
       THEN [label |-> "verified", confidence |-> 70000 + (rnd * 20) \div 100]
       ELSE IF news_score > uncertainty_score
       THEN [label |-> "verified",
             confidence |-> Min(85000, 55000 + news_score * 5000 + (rnd * 10) \div 100)]
       ELSE LET base_confidence == 45000 + (rnd * 15) \div 100
                confidence == IF uncertainty_score > 0
                              THEN base_confidence + uncertainty_score * 3000
                              ELSE base_confidence + WordCount(text_lower) * 100
            IN [label |-> "rumor", confidence |-> Min(75000, Max(40000, confidence))]

\* classify_text_keywords(text) (main.py:414-495); rnd is what random.random()
\* returns.  text.lower() raises for a value that is no str: the except
\* clause returns the result unknown.
classify_text_keywords(text, rnd) ==
    IF text.type # "str" THEN ResultUnknown
    ELSE LET text_lower == Lower(text.v)
             verified_score == Matches(verified_keywords, text_lower)
             rumor_score == Matches(rumor_keywords, text_lower)
         IN IF verified_score + rumor_score = 0 THEN NoMatchResult(text_lower, rnd)
            ELSE IF verified_score > rumor_score
            THEN [label |-> "verified",
                  confidence |-> Min(95000, 60000 + verified_score * 8000
                                            + Min(15000, WordCount(text_lower) * 500))]
            ELSE IF rumor_score > verified_score
            THEN [label |-> "rumor",
                  confidence |-> Min(90000, 55000 + rumor_score * 6000
                                            + Min(10000, rumor_score * 3000))]
            ELSE [label |-> "rumor", confidence |-> 50000 + (rnd * 15) \div 100]

\* The two artifacts: models/LinearSVM.joblib, models/tfidf_vectorizer.joblib.
Artifacts == {"LinearSVM", "tfidf_vectorizer"}

\* What joblib.load gives for an artifact, tried on its three paths.
Load(dir, artifact) == IF artifact \in dir THEN "loaded" ELSE "None"

\* What the SVM does on one call: transform, predict or predict_proba raises,
\* or predict gives a class (0 or 1) and predict_proba its probabilities, of
\* which max(probabilities) is kept.
SvmOutcomes ==
    { [raises |-> TRUE, prediction |-> 0, confidence |-> 0] } \cup
    { [raises |-> FALSE, prediction |-> p, confidence |-> c] :
        p \in {0, 1}, c \in {50000, 87654, 100000} }

\* The texts classify_text is called with.
ClassifierTexts ==
    { Str(t) : t \in {"Breaking: Official earthquake alert issued by USGS",
                      "Official USGS confirms magnitude 6.5 earthquake.",
                      "Fake hoax about an alien invasion",
                      "Unconfirmed police report",
                      "Local emergency declared",
                      "Sources say it was reported downtown",
                      "It might possibly rain tomorrow",
                      "Nothing to see here",
                      "fake police"} } \cup {NotAStr}

\* classify_text_keywords on the texts of the model, computed once.
KeywordResultOf ==
    [text \in ClassifierTexts, rnd \in RandomValues |-> classify_text_keywords(text, rnd)]

\* The try block of the model path raises (main.py:368-403): LinearSVM.joblib
\* loads from none of its paths on this call, or transform, predict or
\* predict_proba raises (transform does for a value that is no str).
ModelFails(text, dir, svm) ==
    \/ Load(dir, "LinearSVM") = "None"
    \/ svm.raises
    \/ text.type # "str"

UsesModelUnchecked(text, vec, dir, svm) == vec # "None"

\* The call returns the result of the SVM (main.py:366-398): the vectorizer
\* global is set and the model path does not raise.
UsesModel(text, vec, dir, svm) == vec # "None" /\ ~ModelFails(text, dir, svm)

\* classify_text(text) (main.py:361-412).
classify_text(text, vec, dir, svm, rnd) ==
    IF UsesModel(text, vec, dir, svm)
    THEN [label |-> IF svm.prediction = 1 THEN "verified" ELSE "rumor",
          confidence |-> svm.confidence]
    ELSE KeywordResultOf[text, rnd]

(***************************************************************************)
(* The tweets table of postgres_setup.py and insert_tweet.                 *)
(***************************************************************************)
\* confidence_score DECIMAL(5,4): a value is rounded to four decimals,
\* here from units of 0.00001 to units of 0.0001.
ToDecimal4(c) == (c + 5) \div 10

\* The labels without the constraint.
AnyLabel == {"verified", "rumor", "unknown"}

\* CHECK (classification_label IN ('verified', 'rumor'))
StoredLabels == {"verified", "rumor"}

\* The row of an INSERT.  image_url, the column the startup migration adds
\* to the table, is not in the column list of the statement: it is NULL.
NewRow(d, now) ==
    [tweet_id |-> d.tweet_id,
     text |-> d.text,
     username |-> d.username,
     user_followers |-> d.user_followers,
     tweet_timestamp |-> d.tweet_timestamp,
     classification_label |-> d.classification_label,
     confidence_score |-> ToDecimal4(d.confidence_score),
     model_version |-> d.model_version,
     likes |-> d.likes,
     retweets |-> d.retweets,
     replies |-> d.replies,
     category |-> d.category,
     processed_at |-> now,
     is_active |-> TRUE,
     image_url |-> "None"]

UpdatedRowOverwrite(row, d, now) == NewRow(d, now)

\* ON CONFLICT (tweet_id) DO UPDATE SET ...
UpdatedRow(row, d, now) ==
    [row EXCEPT !.classification_label = d.classification_label,
                !.confidence_score = ToDecimal4(d.confidence_score),
                !.category = d.category,
                !.processed_at = now]

UpsertAppend(table, d, now) == Append(table, NewRow(d, now))

\* The INSERT ... ON CONFLICT statement on the table.
Upsert(table, d, now) ==
    IF \E i \in 1..Len(table) : table[i].tweet_id = d.tweet_id
    THEN [i \in 1..Len(table) |->
             IF table[i].tweet_id = d.tweet_id THEN UpdatedRow(table[i], d, now)
             ELSE table[i]]
    ELSE Append(table, NewRow(d, now))

(***************************************************************************)
(* insert_tweet(tweet_data).  db_outcome is what the database does:        *)
(*   "ok"     the connection and the statement work;                       *)
(*   "error"  get_connection, execute or commit raises: caught, the        *)
(*            transaction is not committed, the method returns False;      *)
(*   "raise"  connection.cursor() raises: the except clause is left by     *)
(*            the finally clause, where cursor is unbound, and the         *)
(*            UnboundLocalError reaches the caller.                        *)
(* A label outside StoredLabels violates the CHECK constraint: the         *)
(* statement raises and the method returns False.                          *)
(***************************************************************************)
DbOutcomes == {"ok", "error", "raise"}

insert_tweet(table, d, now, db_outcome) ==
    IF db_outcome = "raise" THEN [table |-> table, ret |-> "raised"]
    ELSE IF db_outcome = "error" \/ d.classification_label \notin StoredLabels
         THEN [table |-> table, ret |-> "False"]
         ELSE [table |-> Upsert(table, d, now), ret |-> "True"]


(***************************************************************************)
(* get_verified_tweets and get_rumor_tweets: one SELECT on the table.      *)
(* min_confidence is in units of 0.00001, the stored confidence_score in   *)
(* units of 0.0001.  category "None" stands for Python's None.             *)
(***************************************************************************)
\* `if category and category != 'all'`: the statement has the category test.
CategoryGiven(category) == category \notin {"None", "", "all"}

\* WHERE classification_label = ... AND confidence_score >= %s
\* [AND category = %s] AND is_active = TRUE: the indexes of the rows selected.
Selected(table, label, min_confidence, category) ==
    { i \in 1..Len(table) :
        /\ table[i].classification_label = label
        /\ table[i].confidence_score * 10 >= min_confidence
        /\ (CategoryGiven(category) => table[i].category = category)
        /\ table[i].is_active }

\* The orders of the rows without ORDER BY.
OrderedAny(table, rows) ==
    { seq \in [1..Cardinality(rows) -> rows] :
        \A i, j \in 1..Cardinality(rows) : i # j => seq[i] # seq[j] }

\* ORDER BY tweet_timestamp DESC: the orders the database may return the
\* rows in; rows of equal tweet_timestamp come in any order.
OrderedDesc(table, rows) ==
    { seq \in [1..Cardinality(rows) -> rows] :
        /\ \A i, j \in 1..Cardinality(rows) : i # j => seq[i] # seq[j]
        /\ \A i, j \in 1..Cardinality(rows) :
              i < j => table[seq[i]].tweet_timestamp >= table[seq[j]].tweet_timestamp }

\* LIMIT %s
Limit(seq, limit) == SubSeq(seq, 1, Min(limit, Len(seq)))

\* The columns of the SELECT list, as the dict of one result row.
Columns(row) ==
    [tweet_id |-> row.tweet_id,
     text |-> row.text,
     username |-> row.username,
     tweet_timestamp |-> row.tweet_timestamp,
     classification_label |-> row.classification_label,
     confidence_score |-> row.confidence_score,
     category |-> row.category,
     likes |-> row.likes,
     retweets |-> row.retweets,
     replies |-> row.replies,
     processed_at |-> row.processed_at]

\* The results the statement of get_verified_tweets / get_rumor_tweets can
\* produce on the table.
SelectByLabel(table, label, min_confidence, category, limit) ==
    { [i \in 1..Len(Limit(seq, limit)) |-> Columns(table[seq[i]])] :
        seq \in OrderedDesc(table, Selected(table, label, min_confidence, category)) }

\* _execute_select_query: the outcomes of the call.  With db_outcome "ok"
\* the rows are returned; with "error" (get_connection or execute raises)
\* the except clause returns []; with "raise" (connection.cursor() raises)
\* the finally clause reads the unbound cursor and the UnboundLocalError
\* reaches the caller.
_execute_select_query(results, db_outcome) ==
    IF db_outcome = "raise" THEN { [raised |-> TRUE, result |-> <<>>] }
    ELSE IF db_outcome = "error" THEN { [raised |-> FALSE, result |-> <<>>] }
    ELSE { [raised |-> FALSE, result |-> r] : r \in results }

get_verified_tweets(table, limit, min_confidence, category, db_outcome) ==
    _execute_select_query(SelectByLabel(table, "verified", min_confidence, category, limit),
                          db_outcome)

get_rumor_tweets(table, limit, min_confidence, category, db_outcome) ==
    _execute_select_query(SelectByLabel(table, "rumor", min_confidence, category, limit),
                          db_outcome)


\* get_all_tweets: WHERE is_active = TRUE [AND category = %s]
\* ORDER BY tweet_timestamp DESC LIMIT %s.
SelectAll(table, category, limit) ==
    LET rows == { i \in 1..Len(table) :
                    /\ table[i].is_active
                    /\ (CategoryGiven(category) => table[i].category = category) }
    IN { [i \in 1..Len(Limit(seq, limit)) |-> Columns(table[seq[i]])] :
           seq \in OrderedDesc(table, rows) }

get_all_tweets(table, limit, category, db_outcome) ==
    _execute_select_query(SelectAll(table, category, limit), db_outcome)

\* [tweet for tweet in tweets if tweet['confidence_score'] >= min_confidence]
RECURSIVE FilterConfidence(_, _)
FilterConfidence(rows, min_confidence) ==
    IF rows = <<>> THEN <<>>
    ELSE IF Head(rows).confidence_score * 10 >= min_confidence
         THEN <<Head(rows)>> \o FilterConfidence(Tail(rows), min_confidence)
         ELSE FilterConfidence(Tail(rows), min_confidence)

(***************************************************************************)
(* get_stats: one SELECT ... GROUP BY classification_label on the table.   *)
(* The clock of the model counts ticks of TickHours hours.                 *)
(***************************************************************************)
StatsWindowHours == 24
TickHours == 25

\* The window test without the time.
InWindowAlways(row, now) == TRUE

\* processed_at >= NOW() - INTERVAL '24 hours'
InWindow(row, now) == row.processed_at * TickHours >= now * TickHours - StatsWindowHours

\* WHERE processed_at >= NOW() - INTERVAL '24 hours' AND is_active = TRUE
StatsRows(table, now) ==
    { i \in 1..Len(table) : InWindow(table[i], now) /\ table[i].is_active }

RECURSIVE SumConfidence(_, _)
SumConfidence(table, rows) ==
    IF rows = {} THEN 0
    ELSE LET i == CHOOSE j \in rows : TRUE
         IN table[i].confidence_score + SumConfidence(table, rows \ {i})

\* The row of the result for one group: COUNT(*), AVG, MAX and MIN of
\* confidence_score, the average kept as the quotient sum / count.
StatsOfGroup(table, rows) ==
    [count |-> Cardinality(rows),
     avg_confidence |-> [sum |-> SumConfidence(table, rows), count |-> Cardinality(rows)],
     max_confidence |-> CHOOSE c \in { table[i].confidence_score : i \in rows } :
                           \A i \in rows : table[i].confidence_score <= c,
     min_confidence |-> CHOOSE c \in { table[i].confidence_score : i \in rows } :
                           \A i \in rows : table[i].confidence_score >= c]

\* GROUP BY classification_label, then the dict get_stats builds from the
\* rows: one key for each label some selected row has.
GroupStats(table, now) ==
    LET rows == StatsRows(table, now)
        labels == { table[i].classification_label : i \in rows }
    IN [label \in labels |->
          StatsOfGroup(table, { i \in rows : table[i].classification_label = label })]

\* get_stats(): _execute_select_query returns [] on a database error, and
\* the dict is then empty.
get_stats(table, now, db_outcome) ==
    IF db_outcome = "raise" THEN [raised |-> TRUE, stats |-> <<>>]
    ELSE IF db_outcome = "error" THEN [raised |-> FALSE, stats |-> <<>>]
    ELSE [raised |-> FALSE, stats |-> GroupStats(table, now)]


(***************************************************************************)
(* State.                                                                  *)
(***************************************************************************)
\* The manual triggers clients send, each a POST /force-update or a
\* POST /initialize-data: the two handlers run the same statements.
Requests == { "r" \o ToString(i) : i \in 1..NumRequests }
FirstRequest == "r1"
Hourly == "hourly"
Tasks == Requests \cup {Hourly}
Channels == 1..NumChannels

VARIABLES
    phase,            \* "init", "serving" (after startup_tasks), "stopped"
    background_task,  \* the global background_task: "None" or Hourly
    tstate,           \* per task: its place on the event loop
    response,         \* per request: "none", then the status the handler answered
    cyc,              \* per task: the locals of its fetch_and_classify_reddit_posts
    tweets,           \* the tweets table, rows in insertion order
    clock,            \* the database's CURRENT_TIMESTAMP
    hourly_runs,      \* cycles the hourly task has started
    hourly_fails,     \* the last cycles of the hourly task that raised, in a row
    overlap,          \* per request: it arrived while a cycle was in flight
    reddit,           \* the posts the subreddit listings can serve
    last_call,        \* the last insert_tweet call made by UpsertOnce
    ensemble_model,   \* the global ensemble_model: "None" or "loaded"
    vectorizer,       \* the global vectorizer: "None" or "loaded"
    models_dir,       \* the artifacts joblib.load can load from the model paths
    call              \* the last call of a function or query, with its result

vars == <<phase, background_task, tstate, response, cyc, tweets, clock,
          hourly_runs, hourly_fails, overlap, reddit, last_call,
          ensemble_model, vectorizer, models_dir, call>>

\* The globals startup_tasks assigns from the model files.
loaded_models == <<ensemble_model, vectorizer>>

\* The variables only some of the actions touch.
others == <<reddit, last_call, models_dir, call>>

NoFunctionCall == [op |-> "none"]

\* The locals of one call of fetch_and_classify_reddit_posts.  fetched,
\* failed, due and results record what happened in the call: the channels
\* whose listing was asked for, the channels whose fetch raised, the
\* identifiers of the kept posts of the channels that did not fail, and what
\* insert_tweet did for each post of unique_posts handled so far ("True",
\* "False" or "raised"), in order.
IdleCycle ==
    [pc |-> "idle", client |-> FALSE, ch |-> 1, all_posts |-> <<>>,
     unique_posts |-> <<>>, idx |-> 1, processed_count |-> 0,
     fetched |-> {}, failed |-> {}, due |-> {}, results |-> <<>>,
     skipped |-> FALSE]


\* No row: the value of last_call.before when the identifier was not stored.
NoRow == [tweet_id |-> "none"]

NoCall ==
    [n |-> 0, d |-> [tweet_id |-> "none"], at |-> 0, ret |-> "none", before |-> NoRow]

\* One post that is kept: what Reddit serves where the content of the posts
\* plays no part.
OnePost == { post \in KeptPosts : post.id = 1 /\ post.author = "alice" }

Init ==
    /\ phase = "init"
    /\ background_task = "None"
    /\ tstate = [t \in Tasks |-> "new"]
    /\ response = [r \in Requests |-> "none"]
    /\ cyc = [t \in Tasks |-> IdleCycle]
    /\ tweets = <<>>
    /\ clock = 0
    /\ hourly_runs = 0
    /\ hourly_fails = 0
    /\ overlap = [r \in Requests |-> FALSE]
    /\ reddit = OnePost
    /\ last_call = NoCall
    /\ ensemble_model = "None"
    /\ vectorizer = "None"
    /\ models_dir = Artifacts
    /\ call = NoFunctionCall

\* The tasks inside fetch_and_classify_reddit_posts.
CyclePcs == {"setup", "fetch", "dedup", "process", "report"}
InFlight == { t \in Tasks : cyc[t].pc \in CyclePcs }

(***************************************************************************)
(* The event loop.  A coroutine keeps the loop until it awaits something   *)
(* that is not ready.  hourly_update_task awaits asyncio.sleep(3600)       *)
(* (main.py:108); fetch_and_classify_reddit_posts holds no await: PRAW and *)
(* psycopg2 are called synchronously.                                      *)
(***************************************************************************)
CycleAwaitPointsInterleaved == {"fetch", "process"}

CycleAwaitPoints == {}

LoopFreeThreads == TRUE

\* No task holds the loop: a handler declared `async def` runs on the loop
\* itself, not in a worker thread.
LoopFree == \A u \in Tasks : tstate[u] # "running"

\* The state of task t after a step that leaves it at pc.
After(t, pc) ==
    IF pc \in CycleAwaitPoints THEN [tstate EXCEPT ![t] = "ready"] ELSE tstate

\* startup_tasks (main.py:110-184): each artifact is loaded from the first of
\* its paths that loads, a global stays None when none does (main.py:138-156);
\* the creation of the background task is commented out (main.py:174-176),
\* background_task stays None.
startup_tasks ==
    /\ phase = "init"
    /\ phase' = "serving"
    /\ background_task' = "None"
    /\ ensemble_model' = Load(models_dir, "LinearSVM")
    /\ vectorizer' = Load(models_dir, "tfidf_vectorizer")
    /\ UNCHANGED <<tstate, response, cyc, tweets, clock, hourly_runs,
                   hourly_fails, overlap>>
    /\ UNCHANGED others

CancelIgnored(ts) == ts

\* background_task.cancel() (main.py:191): the task is suspended at
\* asyncio.sleep or has not run yet; CancelledError is thrown into it where
\* it is suspended, outside the try block of hourly_update_task, and ends it.
Cancel(ts) ==
    IF ts[Hourly] \in {"ready", "sleeping"}
    THEN [ts EXCEPT ![Hourly] = "cancelled"]
    ELSE ts

\* shutdown_tasks (main.py:186-192), run by the loop when the server stops.
shutdown_tasks ==
    /\ phase = "serving"
    /\ LoopFree
    /\ phase' = "stopped"
    /\ tstate' = IF background_task # "None" THEN Cancel(tstate) ELSE tstate
    /\ UNCHANGED <<background_task, response, cyc, tweets, clock,
                   hourly_runs, hourly_fails, overlap>>
    /\ UNCHANGED others
    /\ UNCHANGED loaded_models

\* A client sends POST /force-update or POST /initialize-data.
Arrive(r) ==
    /\ phase = "serving"
    /\ tstate[r] = "new"
    /\ tstate' = [tstate EXCEPT ![r] = "ready"]
    /\ overlap' = [overlap EXCEPT ![r] = InFlight # {}]
    /\ UNCHANGED <<phase, background_task, response, cyc, tweets, clock,
                   hourly_runs, hourly_fails>>
    /\ UNCHANGED others
    /\ UNCHANGED loaded_models

\* The loop runs a ready task: a handler or the hourly task enters
\* fetch_and_classify_reddit_posts (main.py:102, 611, 926), a task that had
\* yielded inside it goes on.  Requests are served until the server stops;
\* the loop runs a background task that is ready also after shutdown_tasks.
Dispatch(t) ==
    /\ phase = "serving" \/ (phase = "stopped" /\ t = Hourly)
    /\ LoopFree
    /\ tstate[t] = "ready"
    /\ tstate' = [tstate EXCEPT ![t] = "running"]
    /\ cyc' = IF cyc[t].pc = "idle"
              THEN [cyc EXCEPT ![t] = [IdleCycle EXCEPT !.pc = "setup"]]
              ELSE cyc
    /\ hourly_runs' = IF t = Hourly /\ cyc[t].pc = "idle"
                      THEN hourly_runs + 1 ELSE hourly_runs
    /\ UNCHANGED <<phase, background_task, response, tweets, clock,
                   hourly_fails, overlap>>
    /\ UNCHANGED others
    /\ UNCHANGED loaded_models

\* Time passes.
Tick ==
    /\ clock < MaxClock
    /\ clock' = clock + 1
    /\ UNCHANGED <<phase, background_task, tstate, response, cyc, tweets,
                   hourly_runs, hourly_fails, overlap>>
    /\ UNCHANGED others
    /\ UNCHANGED loaded_models

(***************************************************************************)
(* fetch_and_classify_reddit_posts (main.py:497-605), step by step.        *)
(***************************************************************************)
\* main.py:500-503: setup_reddit_api() returns a client, or None when the
\* credentials are missing or praw.Reddit raises; None makes the cycle
\* raise, which the outer except re-raises (main.py:603-605).
CycleSetup(t, client_ok) ==
    /\ tstate[t] = "running"
    /\ cyc[t].pc = "setup"
    /\ cyc' = [cyc EXCEPT ![t].client = client_ok,
                          ![t].pc = IF client_ok THEN "fetch" ELSE "raised"]
    /\ tstate' = After(t, IF client_ok THEN "fetch" ELSE "raised")
    /\ UNCHANGED <<phase, background_task, response, tweets, clock,
                   hourly_runs, hourly_fails, overlap>>
    /\ UNCHANGED others
    /\ UNCHANGED loaded_models

\* Where the loop over the subreddits goes after subreddit ch: the except
\* clause logs and continues with the next one (main.py:572-574).
AfterChannelBreak(ch, raises) ==
    IF raises \/ ch = NumChannels THEN "dedup" ELSE "fetch"

AfterChannel(ch, raises) == IF ch = NumChannels THEN "dedup" ELSE "fetch"

\* main.py:522-574, one subreddit.  The listing is iterated; when the fetch
\* or the handling of a post raises after n posts, the posts appended so far
\* stay in all_posts and the loop goes on with the next subreddit.
FetchChannel(t, listing, raises, n) ==
    /\ tstate[t] = "running"
    /\ cyc[t].pc = "fetch"
    /\ LET seen == IF raises THEN SubSeq(listing, 1, n) ELSE listing
           found == Collect(seen)
           pc2 == AfterChannel(cyc[t].ch, raises)
       IN /\ cyc' = [cyc EXCEPT
                  ![t].all_posts = @ \o found,
                  ![t].fetched = @ \cup {cyc[t].ch},
                  ![t].skipped = @ \/ \E i \in 1..Len(seen) : seen[i] \in ShortPosts,
                  ![t].failed = IF raises THEN @ \cup {cyc[t].ch} ELSE @,
                  ![t].due = IF raises THEN @
                             ELSE @ \cup { found[i].tweet_id : i \in 1..Len(found) },
                  ![t].ch = IF cyc[t].ch = NumChannels THEN @ ELSE @ + 1,
                  ![t].pc = pc2]
          /\ tstate' = After(t, pc2)
    /\ UNCHANGED <<phase, background_task, response, tweets, clock,
                   hourly_runs, hourly_fails, overlap>>
    /\ UNCHANGED others
    /\ UNCHANGED loaded_models

\* main.py:576-579.
Deduplicate(t) ==
    /\ tstate[t] = "running"
    /\ cyc[t].pc = "dedup"
    /\ LET u == unique_posts_of(cyc[t].all_posts)
           pc2 == IF u = <<>> THEN "report" ELSE "process"
       IN /\ cyc' = [cyc EXCEPT ![t].unique_posts = u, ![t].idx = 1,
                                ![t].processed_count = 0, ![t].pc = pc2]
          /\ tstate' = After(t, pc2)
    /\ UNCHANGED <<phase, background_task, response, tweets, clock,
                   hourly_runs, hourly_fails, overlap>>
    /\ UNCHANGED others
    /\ UNCHANGED loaded_models

\* What the loop over unique_posts does after the body raised: the except
\* clause logs and continues with the next post (main.py:594-596).
AbortOnRaise(ret, idx, len) == IF ret = "raised" \/ idx = len THEN "report" ELSE "process"

AfterPost(ret, idx, len) == IF idx = len THEN "report" ELSE "process"

\* main.py:591-592: processed_count += 1 when insert_tweet returned True.
CountProcessed(count, ret) == IF ret = "True" THEN count + 1 ELSE count

\* main.py:580-596, one post of unique_posts.  all_posts is not read once
\* the loop over unique_posts runs: the model drops its value there.
ProcessPost(t, classification, db_outcome) ==
    /\ tstate[t] = "running"
    /\ cyc[t].pc = "process"
    /\ LET post_data == cyc[t].unique_posts[cyc[t].idx]
           db_data == DbData(post_data, classification)
           res == insert_tweet(tweets, db_data, clock, db_outcome)
           pc2 == AfterPost(res.ret, cyc[t].idx, Len(cyc[t].unique_posts))
       IN /\ tweets' = res.table
          /\ cyc' = [cyc EXCEPT
                  ![t].processed_count = CountProcessed(@, res.ret),
                  ![t].results = Append(@, res.ret),
                  ![t].all_posts = <<>>,
                  ![t].idx = IF pc2 = "process" THEN @ + 1 ELSE @,
                  ![t].pc = pc2]
          /\ tstate' = After(t, pc2)
    /\ UNCHANGED <<phase, background_task, response, clock, hourly_runs,
                   hourly_fails, overlap>>
    /\ UNCHANGED others
    /\ UNCHANGED loaded_models

(***************************************************************************)
(* The callers of the cycle.                                               *)
(***************************************************************************)
\* At "report" the cycle logs the warning or the info line (main.py:598-601)
\* and returns to its caller; at "raised" it has raised (main.py:603-605).
\*
\* force_update (main.py:921-934) and initialize_data (main.py:607-614):
\* "success" when the cycle returned, HTTPException 503 when it raised.
ManualStatusAllFailed(c) ==
    IF c.pc = "raised" \/ c.failed = Channels THEN "error" ELSE "success"

ManualStatus(c) == IF c.pc = "raised" THEN "error" ELSE "success"

ManualReturn(r) ==
    /\ tstate[r] = "running"
    /\ cyc[r].pc \in {"report", "raised"}
    /\ response' = [response EXCEPT ![r] = ManualStatus(cyc[r])]
    /\ tstate' = [tstate EXCEPT ![r] = "done"]
    /\ cyc' = [cyc EXCEPT ![r] = IdleCycle]
    /\ UNCHANGED <<phase, background_task, tweets, clock, hourly_runs,
                   hourly_fails, overlap>>
    /\ UNCHANGED others
    /\ UNCHANGED loaded_models

\* hourly_update_task (main.py:97-108): what the task does after its cycle
\* returned or raised: the except clause logs, the loop reaches the sleep.
HourlyDiesOnRaise(pc) == IF pc = "raised" THEN "done" ELSE "sleeping"

HourlyAfter(pc) == "sleeping"

HourlySleep ==
    /\ tstate[Hourly] = "running"
    /\ cyc[Hourly].pc \in {"report", "raised"}
    /\ tstate' = [tstate EXCEPT ![Hourly] = HourlyAfter(cyc[Hourly].pc)]
    /\ hourly_fails' = IF cyc[Hourly].pc = "raised" THEN hourly_fails + 1 ELSE 0
    /\ cyc' = [cyc EXCEPT ![Hourly] = IdleCycle]
    /\ UNCHANGED <<phase, background_task, response, tweets, clock,
                   hourly_runs, overlap>>
    /\ UNCHANGED others
    /\ UNCHANGED loaded_models

\* asyncio.sleep(3600) is over: the task is ready for its next round.
TimerFire ==
    /\ phase = "serving"
    /\ tstate[Hourly] = "sleeping"
    /\ hourly_runs < MaxHourly
    /\ tstate' = [tstate EXCEPT ![Hourly] = "ready"]
    /\ UNCHANGED <<phase, background_task, response, cyc, tweets, clock,
                   hourly_runs, hourly_fails, overlap>>
    /\ UNCHANGED others
    /\ UNCHANGED loaded_models

CycleStep(t) ==
    \/ \E client_ok \in BOOLEAN : CycleSetup(t, client_ok)
    \/ \E listing \in Listings(reddit) : \E raises \in BOOLEAN :
         \E n \in 0..Len(listing) :
            /\ (~raises => n = Len(listing))
            /\ FetchChannel(t, listing, raises, n)
    \/ Deduplicate(t)
    \/ \E classification \in ClassResults : \E db_outcome \in DbOutcomes :
         ProcessPost(t, classification, db_outcome)

Next ==
    \/ startup_tasks
    \/ shutdown_tasks
    \/ \E r \in Requests : Arrive(r)
    \/ \E r \in Requests : Dispatch(r)
    \/ \E r \in Requests : CycleStep(r)
    \/ \E r \in Requests : ManualReturn(r)
    \/ Tick

Spec == Init /\ [][Next]_vars

(***************************************************************************)
(* The server with the hourly task on its loop: the state after            *)
(* background_task = asyncio.create_task(hourly_update_task()), the        *)
(* statement of main.py:175, has run in startup_tasks.  The hourly task    *)
(* shares the loop with a manual trigger; manual triggers among themselves *)
(* are the subject of Spec.                                                *)
(***************************************************************************)
InitSched ==
    /\ phase = "serving"
    /\ background_task = Hourly
    /\ tstate = [t \in Tasks |-> IF t = Hourly THEN "ready" ELSE "new"]
    /\ response = [r \in Requests |-> "none"]
    /\ cyc = [t \in Tasks |-> IdleCycle]
    /\ tweets = <<>>
    /\ clock = 0
    /\ hourly_runs = 0
    /\ hourly_fails = 0
    /\ overlap = [r \in Requests |-> FALSE]
    /\ reddit = OnePost
    /\ last_call = NoCall
    /\ ensemble_model = "loaded"
    /\ vectorizer = "loaded"
    /\ models_dir = Artifacts
    /\ call = NoFunctionCall

NextSched ==
    \/ shutdown_tasks
    \/ Arrive(FirstRequest)
    \/ \E t \in {FirstRequest, Hourly} : Dispatch(t)
    \/ \E t \in {FirstRequest, Hourly} : CycleStep(t)
    \/ ManualReturn(FirstRequest)
    \/ HourlySleep
    \/ TimerFire

SpecSched == InitSched /\ [][NextSched]_vars


(***************************************************************************)
(* One manual trigger on a fresh server.  The listings serve, under every  *)
(* identifier, a post that is kept and a post with a disaster keyword      *)
(* whose cleaned text is too short.  Posts that change between two fetches *)
(* are the subject of SpecDedup and SpecStore.                             *)
(***************************************************************************)
CycleFeed == { post \in RawPosts : post.author \in {"alice", "bob"} }

InitCycle ==
    /\ phase = "init"
    /\ background_task = "None"
    /\ tstate = [t \in Tasks |-> "new"]
    /\ response = [r \in Requests |-> "none"]
    /\ cyc = [t \in Tasks |-> IdleCycle]
    /\ tweets = <<>>
    /\ clock = 0
    /\ hourly_runs = 0
    /\ hourly_fails = 0
    /\ overlap = [r \in Requests |-> FALSE]
    /\ reddit = CycleFeed
    /\ last_call = NoCall
    /\ ensemble_model = "None"
    /\ vectorizer = "None"
    /\ models_dir = Artifacts
    /\ call = NoFunctionCall

NextCycle ==
    \/ startup_tasks
    \/ Arrive(FirstRequest)
    \/ Dispatch(FirstRequest)
    \/ CycleStep(FirstRequest)
    \/ ManualReturn(FirstRequest)

SpecCycle == InitCycle /\ [][NextCycle]_vars

(***************************************************************************)
(* The store under the calls the cycles make on it: main.py:582-591 for    *)
(* one kept post, db.insert_tweet(db_data) with the classification of its  *)
(* text.  Every cycle, manual or scheduled, reaches the table through      *)
(* this one statement, so any overlap of cycles is a sequence of such      *)
(* calls.  last_call keeps the call: its result and, when it returned      *)
(* True, its data, its time and the row the table held for the identifier  *)
(* before it; of a call that did not, the label and what the database did. *)
(***************************************************************************)
MaxUpserts == 3

RowOf(table, tweet_id) ==
    IF \E i \in 1..Len(table) : table[i].tweet_id = tweet_id
    THEN table[CHOOSE i \in 1..Len(table) : table[i].tweet_id = tweet_id]
    ELSE NoRow

RowsOf(table, tweet_id) == { i \in 1..Len(table) : table[i].tweet_id = tweet_id }

UpsertOnce(post, classification, db_outcome) ==
    /\ last_call.n < MaxUpserts
    /\ LET db_data == DbData(PostDataOf[post], classification)
           res == insert_tweet(tweets, db_data, clock, db_outcome)
       IN /\ tweets' = res.table
          /\ last_call' = IF res.ret = "True"
                          THEN [n |-> last_call.n + 1, d |-> db_data, at |-> clock,
                                ret |-> res.ret,
                                before |-> RowOf(tweets, db_data.tweet_id)]
                          ELSE [NoCall EXCEPT
                                  !.n = last_call.n + 1, !.ret = res.ret,
                                  !.d = [tweet_id |-> "none",
                                         classification_label |-> classification.label,
                                         db |-> db_outcome]]
    /\ call' = NoFunctionCall
    /\ UNCHANGED <<phase, background_task, tstate, response, cyc, clock,
                   hourly_runs, hourly_fails, overlap, reddit, models_dir>>
    /\ UNCHANGED loaded_models

InitStore ==
    /\ phase = "serving"
    /\ background_task = "None"
    /\ tstate = [t \in Tasks |-> "new"]
    /\ response = [r \in Requests |-> "none"]
    /\ cyc = [t \in Tasks |-> IdleCycle]
    /\ tweets = <<>>
    /\ clock = 0
    /\ hourly_runs = 0
    /\ hourly_fails = 0
    /\ overlap = [r \in Requests |-> FALSE]
    /\ reddit = RawPosts
    /\ last_call = NoCall
    /\ ensemble_model = "loaded"
    /\ vectorizer = "loaded"
    /\ models_dir = Artifacts
    /\ call = NoFunctionCall

\* The posts the store is exercised with: the kept posts of two identifiers,
\* so that an identifier is stored again next to another one.
StorePosts == { post \in KeptPosts : post.id \in {1, 2} }

NextStore ==
    \/ \E post \in StorePosts : \E classification \in ClassResults :
         \E db_outcome \in DbOutcomes : UpsertOnce(post, classification, db_outcome)
    \/ Tick

SpecStore == InitStore /\ [][NextStore]_vars

(***************************************************************************)
(* The read endpoints GET /reddit/verified and GET /reddit/rumors on the   *)
(* table the upserts build.  A row is soft-deactivated by an               *)
(* administrative statement outside the pipeline; no statement of the      *)
(* program sets is_active.  call keeps the last read of the table as it   *)
(* is, with its arguments, what the database did and the rows returned: a  *)
(* write to the table resets it.                                           *)
(***************************************************************************)
Limits == {1, 2}
MinConfidences == {50000, 70000}
QueryCategories == {"all", "flood"}

\* UPDATE tweets SET is_active = FALSE WHERE tweet_id = ...
Deactivate(i) ==
    /\ i \in 1..Len(tweets)
    /\ tweets[i].is_active
    /\ tweets' = [tweets EXCEPT ![i].is_active = FALSE]
    /\ call' = NoFunctionCall
    /\ UNCHANGED <<phase, background_task, tstate, response, cyc, clock,
                   hourly_runs, hourly_fails, overlap, reddit, last_call, models_dir>>
    /\ UNCHANGED loaded_models

\* tweet.get(key, default) on a row of the cursor.
Get(tweet, key, default) == IF key \in DOMAIN tweet THEN tweet[key] ELSE default

\* RedditPost(id=tweet["tweet_id"], ..., image_url=tweet.get("image_url"))
RedditPost(tweet) ==
    [id |-> tweet.tweet_id,
     text |-> tweet.text,
     author |-> tweet.username,
     created_at |-> tweet.tweet_timestamp,
     label |-> tweet.classification_label,
     confidence |-> tweet.confidence_score,
     retweet_count |-> 0,
     like_count |-> tweet.likes,
     category |-> Get(tweet, "category", "general"),
     image_url |-> Get(tweet, "image_url", "None")]

\* The response of a read endpoint: one RedditPost per row kept.
Posts(rows) == [k \in 1..Len(rows) |-> RedditPost(rows[k])]

ReadCall(op, limit, min_confidence, category, db_outcome, out) ==
    [op |-> op, limit |-> limit, min_confidence |-> min_confidence,
     category |-> category, db |-> db_outcome, raised |-> out.raised,
     result |-> out.result, posts |-> Posts(out.result)]

\* GET /reddit/verified: the category "all" is passed on as None.
get_verified_news(limit, min_confidence, category, db_outcome) ==
    /\ \E out \in get_verified_tweets(tweets, limit, min_confidence,
                                      IF category # "all" THEN category ELSE "None",
                                      db_outcome) :
          call' = ReadCall("get_verified_tweets", limit, min_confidence, category,
                           db_outcome, out)
    /\ UNCHANGED <<phase, background_task, tstate, response, cyc, tweets, clock,
                   hourly_runs, hourly_fails, overlap, reddit, last_call, models_dir>>
    /\ UNCHANGED loaded_models

\* GET /reddit/rumors
get_rumors(limit, min_confidence, category, db_outcome) ==
    /\ \E out \in get_rumor_tweets(tweets, limit, min_confidence,
                                   IF category # "all" THEN category ELSE "None",
                                   db_outcome) :
          call' = ReadCall("get_rumor_tweets", limit, min_confidence, category,
                           db_outcome, out)
    /\ UNCHANGED <<phase, background_task, tstate, response, cyc, tweets, clock,
                   hourly_runs, hourly_fails, overlap, reddit, last_call, models_dir>>
    /\ UNCHANGED loaded_models

\* GET /reddit/disaster-news: the rows of get_all_tweets, of which the
\* handler keeps those of at least min_confidence; no row at all is
\* answered with HTTP 503, an exception of the read with HTTP 500.
get_disaster_news(limit, min_confidence, category, db_outcome) ==
    /\ \E out \in get_all_tweets(tweets, limit,
                                 IF category # "all" THEN category ELSE "None",
                                 db_outcome) :
          call' = [op |-> "get_disaster_news", limit |-> limit,
                   min_confidence |-> min_confidence, category |-> category,
                   db |-> db_outcome, raised |-> out.raised,
                   status |-> IF out.raised THEN 500
                              ELSE IF out.result = <<>> THEN 503 ELSE 200,
                   result |-> FilterConfidence(out.result, min_confidence),
                   posts |-> Posts(FilterConfidence(out.result, min_confidence))]
    /\ UNCHANGED <<phase, background_task, tstate, response, cyc, tweets, clock,
                   hourly_runs, hourly_fails, overlap, reddit, last_call, models_dir>>
    /\ UNCHANGED loaded_models

QueryResults == { c \in ClassResults : c.label \in StoredLabels }

\* The state of SpecStore after MaxUpserts - 2 upserts the database has
\* refused: the table is empty and two upserts remain.
InitQuery ==
    /\ phase = "serving"
    /\ background_task = "None"
    /\ tstate = [t \in Tasks |-> "new"]
    /\ response = [r \in Requests |-> "none"]
    /\ cyc = [t \in Tasks |-> IdleCycle]
    /\ tweets = <<>>
    /\ clock = 0
    /\ hourly_runs = 0
    /\ hourly_fails = 0
    /\ overlap = [r \in Requests |-> FALSE]
    /\ reddit = RawPosts
    /\ last_call = [NoCall EXCEPT !.n = MaxUpserts - 2, !.ret = "False"]
    /\ ensemble_model = "loaded"
    /\ vectorizer = "loaded"
    /\ models_dir = Artifacts
    /\ call = NoFunctionCall

NextQuery ==
    \/ \E post \in KeptPosts : \E classification \in QueryResults :
         UpsertOnce(post, classification, "ok")
    \/ \E i \in 1..MaxPostId : Deactivate(i)
    \/ \E limit \in Limits : \E min_confidence \in MinConfidences :
         \E category \in QueryCategories : \E db_outcome \in DbOutcomes :
            \/ get_verified_news(limit, min_confidence, category, db_outcome)
            \/ get_rumors(limit, min_confidence, category, db_outcome)
            \/ get_disaster_news(limit, min_confidence, category, db_outcome)

SpecQuery == InitQuery /\ [][NextQuery]_vars

(***************************************************************************)
(* GET /stats/dashboard on the table the upserts build, while time passes. *)
(* The handler has no await and the statistics are one SELECT statement:   *)
(* an upsert of another cycle comes before it or after it.  call keeps the *)
(* response with the time of the read in last_updated.                     *)
(***************************************************************************)
RECURSIVE SumCounts(_, _)
SumCounts(stats, labels) ==
    IF labels = {} THEN 0
    ELSE LET label == CHOOSE l \in labels : TRUE
         IN stats[label].count + SumCounts(stats, labels \ {label})

get_dashboard_stats(db_outcome) ==
    /\ LET out == get_stats(tweets, clock, db_outcome)
       IN call' = [op |-> "get_stats", db |-> db_outcome, raised |-> out.raised,
                   stats |-> out.stats, last_updated |-> clock,
                   total_processed |-> SumCounts(out.stats, DOMAIN out.stats)]
    /\ UNCHANGED <<phase, background_task, tstate, response, cyc, tweets, clock,
                   hourly_runs, hourly_fails, overlap, reddit, last_call, models_dir>>
    /\ UNCHANGED loaded_models

\* The state of SpecStore after MaxUpserts - 2 upserts the database has
\* refused: the table is empty and two upserts remain.
InitStats ==
    /\ phase = "serving"
    /\ background_task = "None"
    /\ tstate = [t \in Tasks |-> "new"]
    /\ response = [r \in Requests |-> "none"]
    /\ cyc = [t \in Tasks |-> IdleCycle]
    /\ tweets = <<>>
    /\ clock = 0
    /\ hourly_runs = 0
    /\ hourly_fails = 0
    /\ overlap = [r \in Requests |-> FALSE]
    /\ reddit = RawPosts
    /\ last_call = [NoCall EXCEPT !.n = MaxUpserts - 2, !.ret = "False"]
    /\ ensemble_model = "loaded"
    /\ vectorizer = "loaded"
    /\ models_dir = Artifacts
    /\ call = NoFunctionCall

NextStats ==
    \/ \E post \in KeptPosts : \E classification \in QueryResults :
         UpsertOnce(post, classification, "ok")
    \/ \E i \in 1..MaxPostId : Deactivate(i)
    \/ Tick
    \/ \E db_outcome \in DbOutcomes : get_dashboard_stats(db_outcome)

SpecStats == InitStats /\ [][NextStats]_vars

(***************************************************************************)
(* POST /clear-database on the schema of create_tables.                    *)
(***************************************************************************)
\* The tables create_tables creates: tweets, users and api_logs.
SchemaTables == {"tweets", "users", "api_logs"}

\* The statements of clear_database, in the order the handler executes them.
ClearStatements == <<"tweets", "classification_details">>

\* One transaction of DELETE statements: a DELETE on a table the schema
\* does not have raises, and nothing before it has been committed.
RECURSIVE DeleteAll(_, _, _)
DeleteAll(table, statements, schema) ==
    IF statements = <<>> THEN [raised |-> FALSE, table |-> table]
    ELSE IF Head(statements) \notin schema THEN [raised |-> TRUE, table |-> table]
    ELSE LET rest == DeleteAll(IF Head(statements) = "tweets" THEN <<>> ELSE table,
                               Tail(statements), schema)
         IN IF rest.raised THEN [raised |-> TRUE, table |-> table] ELSE rest

\* clear_database: get_connection or cursor() raising, like a statement
\* raising, is caught by the except clause, which answers status error;
\* only a run that reaches connection.commit() changes the table.
clear_database(db_outcome) ==
    /\ LET res == IF db_outcome # "ok" THEN [raised |-> TRUE, table |-> tweets]
                  ELSE DeleteAll(tweets, ClearStatements, SchemaTables)
       IN /\ tweets' = res.table
          /\ call' = [op |-> "clear_database", db |-> db_outcome, before |-> tweets,
                      status |-> IF res.raised THEN "error" ELSE "success"]
    /\ UNCHANGED <<phase, background_task, tstate, response, cyc, clock,
                   hourly_runs, hourly_fails, overlap, reddit, last_call, models_dir>>
    /\ UNCHANGED loaded_models

\* Records are stored, then the table is cleared, in any order.
InitClear == InitQuery

NextClear ==
    \/ \E post \in KeptPosts : \E classification \in QueryResults :
         UpsertOnce(post, classification, "ok")
    \/ \E db_outcome \in DbOutcomes : clear_database(db_outcome)

SpecClear == InitClear /\ [][NextClear]_vars

(***************************************************************************)
(* The deduplication step on the batches a cycle can have collected:       *)
(* all_posts is any sequence of at most MaxBatch entries made from the     *)
(* kept posts.                                                             *)
(***************************************************************************)
MaxBatch == 3

Batches ==
    UNION { [1..n -> { PostDataOf[post] : post \in KeptPosts }] : n \in 0..MaxBatch }

InitDedup ==
    /\ phase = "serving"
    /\ background_task = "None"
    /\ tstate = [t \in Tasks |-> IF t = FirstRequest THEN "running" ELSE "new"]
    /\ response = [r \in Requests |-> "none"]
    /\ \E batch \in Batches :
         cyc = [t \in Tasks |->
                  IF t = FirstRequest
                  THEN [IdleCycle EXCEPT
                          !.pc = "dedup", !.client = TRUE, !.ch = NumChannels,
                          !.all_posts = batch, !.fetched = Channels,
                          !.due = { batch[i].tweet_id : i \in 1..Len(batch) }]
                  ELSE IdleCycle]
    /\ tweets = <<>>
    /\ clock = 0
    /\ hourly_runs = 0
    /\ hourly_fails = 0
    /\ overlap = [r \in Requests |-> FALSE]
    /\ reddit = RawPosts
    /\ last_call = NoCall
    /\ ensemble_model = "loaded"
    /\ vectorizer = "loaded"
    /\ models_dir = Artifacts
    /\ call = NoFunctionCall

NextDedup == Deduplicate(FirstRequest)

SpecDedup == InitDedup /\ [][NextDedup]_vars


(***************************************************************************)
(* The classifier and its status queries.  The server starts with any of   *)
(* the two artifacts loadable; files can appear in and disappear from the  *)
(* model paths while it runs.  call keeps, for the last call: the text,    *)
(* the result, whether the model path was entered (model_tried), whether   *)
(* it raised (model_failed), whether the result is the SVM's (used_model), *)
(* and what the handler reported.                                          *)
(***************************************************************************)
ModelsDirChanges(dir) ==
    /\ models_dir # dir
    /\ models_dir' = dir
    /\ UNCHANGED <<phase, background_task, tstate, response, cyc, tweets, clock,
                   hourly_runs, hourly_fails, overlap, reddit, last_call, call>>
    /\ UNCHANGED loaded_models

Classification(op, text, svm, rnd) ==
    [op |-> op,
     text |-> text,
     result |-> classify_text(text, vectorizer, models_dir, svm, rnd),
     model_tried |-> vectorizer # "None",
     model_failed |-> vectorizer # "None" /\ ModelFails(text, models_dir, svm),
     used_model |-> UsesModel(text, vectorizer, models_dir, svm),
     model_status |-> "none",
     models_loaded |-> "none"]

\* A call of classify_text, as the cycle makes it (main.py:582).
ClassifyCall(text, svm, rnd) ==
    /\ phase = "serving"
    /\ call' = Classification("classify_text", text, svm, rnd)
    /\ UNCHANGED <<phase, background_task, tstate, response, cyc, tweets, clock,
                   hourly_runs, hourly_fails, overlap, reddit, last_call, models_dir>>
    /\ UNCHANGED loaded_models

\* POST /test-classification (main.py:936-948).
test_classification(text, svm, rnd) ==
    /\ phase = "serving"
    /\ text.type = "str"
    /\ call' = [Classification("test_classification", text, svm, rnd) EXCEPT
                  !.model_status = IF ensemble_model # "None"
                                   THEN "ML model" ELSE "keyword fallback"]
    /\ UNCHANGED <<phase, background_task, tstate, response, cyc, tweets, clock,
                   hourly_runs, hourly_fails, overlap, reddit, last_call, models_dir>>
    /\ UNCHANGED loaded_models

StatusText == Str("Breaking: Official earthquake alert issued by USGS")

\* GET /model-status (main.py:950-981): classify_text is called on StatusText
\* when both globals are set; used_model tells what a call of classify_text
\* in this state does.
model_status(svm, rnd) ==
    /\ phase = "serving"
    /\ LET model_loaded == ensemble_model # "None" /\ vectorizer # "None"
           test == Classification("model_status", StatusText, svm, rnd)
       IN call' = [test EXCEPT
                     !.result = IF model_loaded THEN @ ELSE [label |-> "none", confidence |-> 0],
                     !.models_loaded = IF model_loaded THEN "True" ELSE "False"]
    /\ UNCHANGED <<phase, background_task, tstate, response, cyc, tweets, clock,
                   hourly_runs, hourly_fails, overlap, reddit, last_call, models_dir>>
    /\ UNCHANGED loaded_models

InitClassify ==
    /\ phase = "init"
    /\ background_task = "None"
    /\ tstate = [t \in Tasks |-> "new"]
    /\ response = [r \in Requests |-> "none"]
    /\ cyc = [t \in Tasks |-> IdleCycle]
    /\ tweets = <<>>
    /\ clock = 0
    /\ hourly_runs = 0
    /\ hourly_fails = 0
    /\ overlap = [r \in Requests |-> FALSE]
    /\ reddit = OnePost
    /\ last_call = NoCall
    /\ ensemble_model = "None"
    /\ vectorizer = "None"
    /\ models_dir \in SUBSET Artifacts
    /\ call = NoFunctionCall

NextClassify ==
    \/ startup_tasks
    \/ \E dir \in SUBSET Artifacts : ModelsDirChanges(dir)
    \/ \E text \in ClassifierTexts : \E svm \in SvmOutcomes : \E rnd \in RandomValues :
         \/ ClassifyCall(text, svm, rnd)
         \/ test_classification(text, svm, rnd)
    \/ \E svm \in SvmOutcomes : \E rnd \in RandomValues : model_status(svm, rnd)

SpecClassify == InitClassify /\ [][NextClassify]_vars

(***************************************************************************)
(* detect_disaster_category on texts of at most MaxWords words.  The words *)
(* hold keywords of several categories, in lower, upper and mixed case and *)
(* inside longer words, and words without a keyword.                       *)
(***************************************************************************)
MaxWords == 2

CategoryWords ==
    {"MAGNITUDE", "flooding", "Wildfire", "thunderstorms", "drought", "lava",
     "Tsunami", "seismic", "coast", "here"}

RECURSIVE Join(_)
Join(words) ==
    IF Len(words) = 1 THEN words[1] ELSE words[1] \o " " \o Join(Tail(words))

CategoryTexts ==
    { Join(words) : words \in UNION { [1..n -> CategoryWords] : n \in 1..MaxWords } }
    \cup {"7.2 magnitude earthquake hits coast", "no keywords here", ""}

\* detect_disaster_category on the texts of the model, computed once.
CategoryOf == [text \in CategoryTexts |-> detect_disaster_category(text)]

DetectCategory(text) ==
    /\ call' = [op |-> "detect_disaster_category", text |-> text,
                result |-> CategoryOf[text]]
    /\ UNCHANGED <<phase, background_task, tstate, response, cyc, tweets, clock,
                   hourly_runs, hourly_fails, overlap, reddit, last_call, models_dir>>
    /\ UNCHANGED loaded_models

InitCategory ==
    /\ phase = "serving"
    /\ background_task = "None"
    /\ tstate = [t \in Tasks |-> "new"]
    /\ response = [r \in Requests |-> "none"]
    /\ cyc = [t \in Tasks |-> IdleCycle]
    /\ tweets = <<>>
    /\ clock = 0
    /\ hourly_runs = 0
    /\ hourly_fails = 0
    /\ overlap = [r \in Requests |-> FALSE]
    /\ reddit = OnePost
    /\ last_call = NoCall
    /\ ensemble_model = "loaded"
    /\ vectorizer = "loaded"
    /\ models_dir = Artifacts
    /\ call = NoFunctionCall

NextCategory == \E text \in CategoryTexts : DetectCategory(text)

SpecCategory == InitCategory /\ [][NextCategory]_vars

(***************************************************************************)
(* classify_text_keywords on texts of at most MaxWords words, and on texts *)
(* long enough and with keywords enough to reach the caps of the formulas. *)
(***************************************************************************)
KeywordWords ==
    {"USGS", "Fake", "emergency", "reported", "might", "reportedly", "rain"}

KeywordTexts ==
    { Str(Join(words)) : words \in UNION { [1..n -> KeywordWords] : n \in 1..MaxWords } }
    \cup { Str(t) : t \in
            {"official usgs confirmed breaking government police earthquake",
             "fake rumor hoax alien conspiracy",
             "Official USGS confirms magnitude 6.5 earthquake.",
             "according to locals sources say it was reported downtown",
             "police a b c d e f g h i j k l m n o p q r s t u v w x y z a b c d e",
             "It could possibly rain", "USGS police", ""} }
    \cup {NotAStr}

\* classify_text_keywords on the texts of the model, computed once.
KeywordTable ==
    [text \in KeywordTexts, rnd \in RandomValues |-> classify_text_keywords(text, rnd)]

KeywordCall(text, rnd) ==
    /\ call' = [op |-> "classify_text_keywords", text |-> text, rnd |-> rnd,
                result |-> KeywordTable[text, rnd]]
    /\ UNCHANGED <<phase, background_task, tstate, response, cyc, tweets, clock,
                   hourly_runs, hourly_fails, overlap, reddit, last_call, models_dir>>
    /\ UNCHANGED loaded_models

InitKeywords ==
    /\ phase = "serving"
    /\ background_task = "None"
    /\ tstate = [t \in Tasks |-> "new"]
    /\ response = [r \in Requests |-> "none"]
    /\ cyc = [t \in Tasks |-> IdleCycle]
    /\ tweets = <<>>
    /\ clock = 0
    /\ hourly_runs = 0
    /\ hourly_fails = 0
    /\ overlap = [r \in Requests |-> FALSE]
    /\ reddit = OnePost
    /\ last_call = NoCall
    /\ ensemble_model = "None"
    /\ vectorizer = "None"
    /\ models_dir = {}
    /\ call = NoFunctionCall

NextKeywords == \E text \in KeywordTexts : \E rnd \in RandomValues : KeywordCall(text, rnd)

SpecKeywords == InitKeywords /\ [][NextKeywords]_vars

(***************************************************************************)
(* clean_reddit_text called on a title and a body.  The title is a str;    *)
(* the body is a str or, as Python does not enforce the annotation, a      *)
(* value of another type: None, or a number.                               *)
(***************************************************************************)
PyInt == [type |-> "int", v |-> "5"]

NormalizerTitles ==
    {"BREAKING: Official USGS confirms magnitude 6.5 earthquake",
     "Flood warning issued for the river valley",
     "BREAKING:", "EDIT:   ", "UTC", "x-post from news",
     "update: storm is coming!", "  Storm   surge  ", "Is this real?",
     "Wildfire near PST zone", "urgent: evacuate now (crosspost)",
     "flood", "a"}

NormalizerBodies ==
    { Str(b) : b \in {"", "   ", "More details soon", "see GMT update",
                      "crosspost weather", "Evacuation ordered."} }
    \cup {NotAStr, PyInt}

\* Python's truth value of a value used as a condition (main.py:300).
Truthy(value) ==
    IF value.type = "str" THEN value.v # "" ELSE value.type # "NoneType"

\* The call clean_reddit_text(title, selftext) (main.py:294-336): what it
\* returns, or that it raised.  `selftext and selftext.strip()` raises
\* AttributeError for a true value without strip; no statement of the
\* function is inside a try block.
CleanResult(title, selftext) ==
    IF Truthy(selftext) /\ selftext.type # "str"
    THEN [raised |-> TRUE, value |-> ""]
    ELSE [raised |-> FALSE,
          value |-> clean_reddit_text(title, IF selftext.type = "str" THEN selftext.v ELSE "")]

\* CleanResult on the titles and bodies of the model, computed once.
CleanResultOf ==
    [title \in NormalizerTitles, selftext \in NormalizerBodies |-> CleanResult(title, selftext)]

CleanCall(title, selftext) ==
    /\ call' = [op |-> "clean_reddit_text", title |-> title, selftext |-> selftext,
                raised |-> CleanResultOf[title, selftext].raised,
                value |-> CleanResultOf[title, selftext].value]
    /\ UNCHANGED <<phase, background_task, tstate, response, cyc, tweets, clock,
                   hourly_runs, hourly_fails, overlap, reddit, last_call, models_dir>>
    /\ UNCHANGED loaded_models

InitNormalize ==
    /\ phase = "serving"
    /\ background_task = "None"
    /\ tstate = [t \in Tasks |-> "new"]
    /\ response = [r \in Requests |-> "none"]
    /\ cyc = [t \in Tasks |-> IdleCycle]
    /\ tweets = <<>>
    /\ clock = 0
    /\ hourly_runs = 0
    /\ hourly_fails = 0
    /\ overlap = [r \in Requests |-> FALSE]
    /\ reddit = OnePost
    /\ last_call = NoCall
    /\ ensemble_model = "loaded"
    /\ vectorizer = "loaded"
    /\ models_dir = Artifacts
    /\ call = NoFunctionCall

NextNormalize ==
    \E title \in NormalizerTitles : \E selftext \in NormalizerBodies :
        CleanCall(title, selftext)

SpecNormalize == InitNormalize /\ [][NextNormalize]_vars

(***************************************************************************)
(* The hourly task alone on the loop.  The loop runs every ready task and  *)
(* the timer of asyncio.sleep(3600) expires: weak fairness on the steps of *)
(* the task.                                                               *)
(***************************************************************************)
NextHourly ==
    \/ shutdown_tasks
    \/ Dispatch(Hourly)
    \/ CycleStep(Hourly)
    \/ HourlySleep
    \/ TimerFire

SpecHourly ==
    /\ InitSched
    /\ [][NextHourly]_vars
    /\ WF_vars(Dispatch(Hourly))
    /\ WF_vars(CycleStep(Hourly))
    /\ WF_vars(HourlySleep)
    /\ WF_vars(TimerFire)

(***************************************************************************)
(* Properties.                                                             *)
(***************************************************************************)
UniqueIds(c) == { c.unique_posts[i].tweet_id : i \in 1..Len(c.unique_posts) }
Tried(c) == { c.unique_posts[i].tweet_id : i \in 1..Len(c.results) }
Successes(c) == { i \in 1..Len(c.results) : c.results[i] = "True" }

\* C1: at most one ingestion cycle is in flight at any time, whatever manual
\* triggers arrive and whenever the hourly task becomes ready: while a task is
\* inside fetch_and_classify_reddit_posts (between its first statement and its
\* return) no other task is, so the channel fetches and record upserts of two
\* cycles never interleave.
C1_SingleFlight == Cardinality(InFlight) <= 1

\* The second cycle of the hourly task has fetched its channels and has a
\* post to upsert, while a manual trigger that arrived during this cycle is
\* waiting for the loop.
C1_Witness ==
    /\ tstate[Hourly] = "running"
    /\ hourly_runs = 2
    /\ cyc[Hourly].pc = "process"
    /\ tstate[FirstRequest] = "ready"
    /\ overlap[FirstRequest]

\* C2 as claimed: a manual trigger that arrives while a cycle is in flight is
\* answered with a busy outcome (and runs no cycle).
C2_BusyRejected ==
    \A r \in Requests : (overlap[r] /\ tstate[r] = "done") => response[r] = "busy"

\* C2 as amended: a manual trigger that arrives while a cycle is in flight is
\* never answered busy; it is started only once no cycle is in flight and is
\* answered at the end of a cycle of its own, so the two cycles run one after
\* the other.
C2_QueuedThenRun ==
    [][\A r \in Requests : overlap[r] =>
          /\ response'[r] # "busy"
          /\ (tstate[r] = "ready" /\ tstate'[r] = "running") => InFlight = {}
          /\ (response[r] = "none" /\ response'[r] # "none") =>
                (cyc[r].pc \in {"report", "raised"} /\ InFlight \subseteq {r})]_vars

\* A trigger that arrived during a cycle has been answered "success", and the
\* other trigger has been answered too: two cycles were executed.
C2_Witness ==
    \E r \in Requests :
        /\ overlap[r] /\ tstate[r] = "done" /\ response[r] = "success"
        /\ \E q \in Requests : q # r /\ tstate[q] = "done"

\* C3: in every state of the store, after any sequence of upserts (each the
\* single INSERT ... ON CONFLICT statement of insert_tweet, from whichever
\* cycle), no two rows have the same tweet_id.
C3_OneRowPerId ==
    \A i, j \in 1..Len(tweets) : tweets[i].tweet_id = tweets[j].tweet_id => i = j

\* An identifier that was stored has been upserted again, with another
\* identifier in the table.
C3_Witness ==
    /\ last_call.ret = "True"
    /\ last_call.before # NoRow
    /\ Len(tweets) = 2

\* C4: after a successful upsert of an identifier that was already stored, the
\* row has the label, confidence and category of the call and the call's time
\* as processed_at (not before the old one); likes, retweets, replies,
\* tweet_timestamp, username and text are those of the row before the call;
\* and the identifier has exactly one row.
C4_UpsertFrame ==
    (last_call.ret = "True" /\ last_call.before # NoRow) =>
        LET d == last_call.d
            before == last_call.before
            row == RowOf(tweets, d.tweet_id)
        IN /\ Cardinality(RowsOf(tweets, d.tweet_id)) = 1
           /\ row.classification_label = d.classification_label
           /\ row.confidence_score = ToDecimal4(d.confidence_score)
           /\ row.category = d.category
           /\ row.processed_at = last_call.at
           /\ row.processed_at >= before.processed_at
           /\ row.likes = before.likes
           /\ row.retweets = before.retweets
           /\ row.replies = before.replies
           /\ row.tweet_timestamp = before.tweet_timestamp
           /\ row.username = before.username
           /\ row.text = before.text

\* A stored identifier has been upserted later with another text, other
\* counters, another author, another creation time and another label.
C4_Witness ==
    /\ last_call.ret = "True"
    /\ last_call.before # NoRow
    /\ last_call.d.text # last_call.before.text
    /\ last_call.d.likes # last_call.before.likes
    /\ last_call.d.replies # last_call.before.replies
    /\ last_call.d.username # last_call.before.username
    /\ last_call.d.tweet_timestamp # last_call.before.tweet_timestamp
    /\ last_call.d.classification_label # last_call.before.classification_label
    /\ last_call.d.category # last_call.before.category
    /\ last_call.at > last_call.before.processed_at

LastWithId(posts, tweet_id) ==
    posts[CHOOSE i \in 1..Len(posts) :
             /\ posts[i].tweet_id = tweet_id
             /\ \A j \in (i + 1)..Len(posts) : posts[j].tweet_id # tweet_id]

\* C5: when a cycle has deduplicated its batch (and not yet handled a post),
\* unique_posts holds exactly one entry for each identifier of all_posts and
\* none for any other identifier, and the entry of an identifier is the last
\* post of all_posts with it.
C5_DedupLastWins ==
    \A t \in Tasks : (cyc[t].pc \in {"process", "report"} /\ cyc[t].results = <<>>) =>
        LET a == cyc[t].all_posts
            u == cyc[t].unique_posts
        IN /\ \A i \in 1..Len(a) :
                 /\ Cardinality({ j \in 1..Len(u) : u[j].tweet_id = a[i].tweet_id }) = 1
                 /\ \A j \in 1..Len(u) :
                       u[j].tweet_id = a[i].tweet_id => u[j] = LastWithId(a, a[i].tweet_id)
           /\ \A j \in 1..Len(u) : \E i \in 1..Len(a) : a[i].tweet_id = u[j].tweet_id

\* A batch of three posts whose first and last share an identifier and differ
\* has been deduplicated to two entries.
C5_Witness ==
    \E t \in Tasks :
        /\ cyc[t].pc = "process"
        /\ cyc[t].results = <<>>
        /\ Len(cyc[t].all_posts) = 3
        /\ Len(cyc[t].unique_posts) = 2
        /\ cyc[t].all_posts[1].tweet_id = cyc[t].all_posts[3].tweet_id
        /\ cyc[t].all_posts[1] # cyc[t].all_posts[3]

\* C6: a cycle that reaches its end has asked every channel for its listing,
\* also after a channel failed, and every kept post of a channel that did not
\* fail has its identifier in unique_posts and was classified and given to
\* insert_tweet in that cycle.
C6_FailedChannelSkipped ==
    \A t \in Tasks : cyc[t].pc = "report" =>
        /\ cyc[t].fetched = Channels
        /\ cyc[t].due \subseteq UniqueIds(cyc[t])
        /\ cyc[t].due \subseteq Tried(cyc[t])

\* The first channel failed, a later one delivered a kept post, and the cycle
\* has upserted it.
C6_Witness ==
    \E t \in Tasks :
        /\ cyc[t].pc = "report"
        /\ 1 \in cyc[t].failed
        /\ cyc[t].failed # Channels
        /\ cyc[t].due # {}
        /\ cyc[t].processed_count > 0

\* The cycle could reach no source channel: no Reddit client, or every
\* channel's fetch failed.
NoChannelReached(c) == ~c.client \/ c.failed = Channels

Answered(r) == response[r] = "none" /\ response'[r] # "none"

\* C7 as claimed: a cycle that ends with zero processed posts is answered as a
\* non-error when the source fetch worked and as an error when no source
\* channel could be reached at all.
C7_UnreachableIsError ==
    [][\A r \in Requests : (Answered(r) /\ cyc[r].processed_count = 0) =>
          response'[r] = IF NoChannelReached(cyc[r]) THEN "error" ELSE "success"]_vars

\* C7 as amended: a cycle is answered as an error exactly when the Reddit
\* client could not be created; a cycle that ends with zero processed posts
\* with a client is answered "success", also when every channel failed.
C7_ErrorOnlyWithoutClient ==
    [][\A r \in Requests : Answered(r) =>
          /\ response'[r] \in {"success", "error"}
          /\ (response'[r] = "error") <=> ~cyc[r].client
          /\ (cyc[r].client /\ cyc[r].processed_count = 0) => response'[r] = "success"]_vars

\* A cycle with a client is at its end with every channel failed and nothing
\* processed: the answer that follows is "success".
C7_Witness ==
    \E r \in Requests :
        /\ tstate[r] = "running"
        /\ cyc[r].pc = "report"
        /\ cyc[r].client
        /\ cyc[r].failed = Channels
        /\ cyc[r].processed_count = 0

\* C8: an insert_tweet that returns False or raises does not end the loop over
\* unique_posts: the posts before idx have all been handled, a cycle at its end
\* has handled every post of unique_posts, and processed_count is the number of
\* insert_tweet calls that returned True.
C8_BadRecordSkipped ==
    \A t \in Tasks :
        /\ cyc[t].pc = "process" => Len(cyc[t].results) = cyc[t].idx - 1
        /\ cyc[t].pc = "report" => Len(cyc[t].results) = Len(cyc[t].unique_posts)
        /\ cyc[t].pc \in {"process", "report"} =>
              cyc[t].processed_count = Cardinality(Successes(cyc[t]))

\* The upsert of the first record raised and the second record was stored.
C8_Witness ==
    \E t \in Tasks :
        /\ cyc[t].pc = "report"
        /\ cyc[t].results = <<"raised", "True">>
        /\ cyc[t].processed_count = 1

\* C9 as claimed: after startup the scheduler is running, the hourly task is
\* on the loop.
C9_SchedulerRunning ==
    phase = "serving" => (background_task = Hourly /\ tstate[Hourly] # "new")

\* C10: a cycle of the hourly task that raises does not end the task: the
\* task is never finished, after the raise it sleeps, and while the server
\* runs it then starts its next cycle.
C10_HourlySurvives ==
    /\ [](tstate[Hourly] # "done")
    /\ [][(cyc[Hourly].pc = "raised" /\ cyc'[Hourly].pc # "raised") =>
             tstate'[Hourly] = "sleeping"]_vars
    /\ (cyc[Hourly].pc = "raised" /\ hourly_runs < MaxHourly)
          ~> (cyc[Hourly].pc = "setup" \/ phase = "stopped")

\* The first cycle of the hourly task raised and its second cycle is running.
C10_Witness ==
    /\ hourly_fails = 1
    /\ hourly_runs = 2
    /\ cyc[Hourly].pc = "fetch"

\* C11: once shutdown_tasks has signalled the cancellation of the hourly
\* task, the task starts no cycle any more (it takes no step at all); and
\* shutdown_tasks runs only when no cycle is in flight, so the cancellation
\* reaches the task outside a cycle and cuts no upsert: the table is the same
\* before and after it and the cancelled task has no cycle open.
C11_CancelStopsScheduler ==
    [][/\ phase = "stopped" =>
            /\ hourly_runs' = hourly_runs
            /\ cyc'[Hourly] = cyc[Hourly]
            /\ tstate'[Hourly] = tstate[Hourly]
       /\ (phase = "serving" /\ phase' = "stopped") =>
            /\ InFlight = {}
            /\ tweets' = tweets
            /\ tstate'[Hourly] = "cancelled"
            /\ cyc'[Hourly].pc = "idle"]_vars

\* The server was stopped after the hourly task had run a cycle that stored
\* a record, while the task was ready for its next cycle.
C11_Witness ==
    /\ phase = "stopped"
    /\ tstate[Hourly] = "cancelled"
    /\ hourly_runs = 1
    /\ hourly_runs < MaxHourly
    /\ Len(tweets) = 1

ClassifierOps == {"classify_text", "test_classification"}

\* C12: every call of classify_text returns a result whose label is verified,
\* rumor or unknown and whose confidence is between 0.0 and 1.0, in the model
\* path and in the keyword fallback; the result is unknown only when the
\* keyword fallback itself failed (the text is no str), and then it is unknown
\* with confidence 0.5.
C12_ResultInRange ==
    call.op \in ClassifierOps =>
        /\ call.result.label \in {"verified", "rumor", "unknown"}
        /\ call.result.confidence >= 0
        /\ call.result.confidence <= 100000
        /\ (call.result.label = "unknown") <=> (call.text.type # "str")
        /\ (call.result.label = "unknown") => call.result = ResultUnknown

\* The keyword fallback classified a text with five verified keywords: the
\* confidence is the cap 0.95.
C12_Witness ==
    /\ call.op = "classify_text"
    /\ ~call.used_model
    /\ call.text = StatusText
    /\ call.result = [label |-> "verified", confidence |-> 95000]

\* C13: a call whose model path raised (LinearSVM.joblib did not load,
\* transform or prediction raised) returns a result the keyword fallback
\* gives for the same text, and no call changes the globals ensemble_model
\* and vectorizer that select the path of the later calls.
C13_FailureFallsBack ==
    /\ [](call.op \in ClassifierOps /\ call.model_failed =>
            /\ ~call.used_model
            /\ \E rnd \in RandomValues : call.result = KeywordResultOf[call.text, rnd])
    /\ [][call' # call => (ensemble_model' = ensemble_model /\ vectorizer' = vectorizer)]_vars

\* With the vectorizer loaded, the model path raised on a text and the call
\* returned the result of the keyword fallback for it.
C13_Witness ==
    /\ call.op = "classify_text"
    /\ vectorizer = "loaded"
    /\ "LinearSVM" \in models_dir
    /\ call.model_failed
    /\ call.text = Str("Fake hoax about an alien invasion")
    /\ call.result = [label |-> "rumor", confidence |-> 82000]

\* C14 as claimed: classify_text returns the result of the model only if the
\* model and the vectorizer were both loaded by startup_tasks; when one of
\* them was not, every call returns the result of the keyword fallback.
C14_ModelPathNeedsBoth ==
    (call.op \in ClassifierOps /\ call.used_model) =>
        (ensemble_model # "None" /\ vectorizer # "None")

\* C15 as claimed: the mode a status query reports is the mode classify_text
\* uses in the same state: /test-classification says "ML model" exactly when
\* the result of its call is the SVM's, and /model-status says models_loaded
\* exactly when a call of classify_text returns the SVM's result.
C15_ReportedModeIsUsedMode ==
    /\ call.op = "test_classification" =>
          ((call.model_status = "ML model") <=> call.used_model)
    /\ call.op = "model_status" =>
          ((call.models_loaded = "True") <=> call.used_model)

CategoryOrder ==
    <<"earthquake", "flood", "fire", "storm", "weather", "volcanic", "landslide", "tsunami">>

\* The categories that have a keyword occurring in the text, whatever the
\* case of the letters of the text.
CategoriesHit(text) ==
    { i \in 1..Len(Categories) :
        \E keyword \in Categories[i][2] : Contains(Lower(text), keyword) }

\* C16: detect_disaster_category returns the first category, in the order
\* earthquake, flood, fire, storm, weather, volcanic, landslide, tsunami, that
\* has a keyword occurring in the text as a case-insensitive substring, and
\* general when no category has one; '7.2 magnitude earthquake hits coast'
\* gives earthquake and 'no keywords here' gives general.
C16_FirstCategoryWins ==
    call.op = "detect_disaster_category" =>
        LET hits == CategoriesHit(call.text)
        IN /\ \A i \in 1..Len(Categories) : Categories[i][1] = CategoryOrder[i]
           /\ Len(Categories) = Len(CategoryOrder)
           /\ hits = {} => call.result = "general"
           /\ hits # {} =>
                call.result = CategoryOrder[CHOOSE i \in hits : \A j \in hits : i <= j]
           /\ call.text = "7.2 magnitude earthquake hits coast" => call.result = "earthquake"
           /\ call.text = "no keywords here" => call.result = "general"

\* A text with a storm keyword inside a longer word, followed by an
\* earthquake keyword in capitals, was given the category earthquake.
C16_Witness ==
    /\ call.op = "detect_disaster_category"
    /\ call.text = "thunderstorms MAGNITUDE"
    /\ call.result = "earthquake"

(***************************************************************************)
(* C17 - C19: the normalizer in effect, under SpecNormalize.               *)
(***************************************************************************)

C18_OutputNonEmpty ==
    (call.op = "clean_reddit_text" /\ ~call.raised /\ call.title # "") =>
        call.value # ""

\* C19 as claimed: for the title 'BREAKING: Official USGS confirms magnitude
\* 6.5 earthquake' and an empty body the output of clean_reddit_text is
\* non-empty, starts with 'Breaking' and ends with a period.
C19_BreakingExample ==
    (/\ call.op = "clean_reddit_text"
     /\ call.title = "BREAKING: Official USGS confirms magnitude 6.5 earthquake"
     /\ call.selftext = Str("")) =>
        /\ call.value # ""
        /\ StartsWith(call.value, "Breaking")
        /\ EndsWith(call.value, ".")

\* C19: for the title 'BREAKING: Official USGS confirms magnitude 6.5
\* earthquake' and an empty body the output of clean_reddit_text is
\* 'Official USGS confirms magnitude 6.5 earthquake.': it is non-empty, the
\* 'BREAKING:' prefix is removed so that it starts with 'Official', and it
\* ends with a period.
C19_PrefixStripped ==
    (/\ call.op = "clean_reddit_text"
     /\ call.title = "BREAKING: Official USGS confirms magnitude 6.5 earthquake"
     /\ call.selftext = Str("")) =>
        /\ ~call.raised
        /\ call.value = "Official USGS confirms magnitude 6.5 earthquake."
        /\ call.value # ""
        /\ StartsWith(call.value, "Official")
        /\ EndsWith(call.value, ".")

C19_Witness ==
    /\ call.op = "clean_reddit_text"
    /\ call.title = "BREAKING: Official USGS confirms magnitude 6.5 earthquake"
    /\ call.selftext = Str("")
    /\ ~call.raised
    /\ ~StartsWith(call.value, "BREAKING")

(***************************************************************************)
(* C20: the reads by label, under SpecQuery.                               *)
(***************************************************************************)
ReadOps == {"get_verified_tweets", "get_rumor_tweets"}

\* The rows of the table a read by label is to return from: the active rows
\* with the label of the method, a stored confidence of at least
\* min_confidence and, when a category other than "all" is asked for, that
\* category.
Matching(op, min_confidence, category) ==
    { i \in 1..Len(tweets) :
        /\ tweets[i].is_active
        /\ tweets[i].classification_label =
              (IF op = "get_verified_tweets" THEN "verified" ELSE "rumor")
        /\ tweets[i].confidence_score * 10 >= min_confidence
        /\ (category # "all" => tweets[i].category = category) }

ReturnedIds == { call.result[k].tweet_id : k \in 1..Len(call.result) }

\* C20: a read by label that the database serves returns min(limit, number
\* of matching rows) distinct rows, each a matching row with its stored
\* columns, in descending order of tweet_timestamp, and no matching row left
\* out is more recent than a returned one.  Hence after a successful upsert
\* of a record with label verified and confidence >= 0.5, a read of the
\* verified records with min_confidence 0.5 and no category returns the
\* record when it is active and fewer than limit other matching rows are as
\* recent as it.
C20_QueryByLabel ==
    (call.op \in ReadOps /\ call.db = "ok") =>
        LET m == Matching(call.op, call.min_confidence, call.category)
            n == Len(call.result)
        IN /\ ~call.raised
           /\ n = Min(call.limit, Cardinality(m))
           /\ \A k \in 1..n : \E i \in m :
                 /\ call.result[k].tweet_id = tweets[i].tweet_id
                 /\ call.result[k].text = tweets[i].text
                 /\ call.result[k].tweet_timestamp = tweets[i].tweet_timestamp
                 /\ call.result[k].classification_label = tweets[i].classification_label
                 /\ call.result[k].confidence_score = tweets[i].confidence_score
                 /\ call.result[k].category = tweets[i].category
           /\ \A k, l \in 1..n : k # l => call.result[k].tweet_id # call.result[l].tweet_id
           /\ \A k, l \in 1..n :
                 k < l => call.result[k].tweet_timestamp >= call.result[l].tweet_timestamp
           /\ \A i \in m : tweets[i].tweet_id \notin ReturnedIds =>
                 \A k \in 1..n : call.result[k].tweet_timestamp >= tweets[i].tweet_timestamp
           /\ (/\ call.op = "get_verified_tweets"
               /\ call.min_confidence = 50000
               /\ call.category = "all"
               /\ last_call.ret = "True"
               /\ last_call.d.classification_label = "verified"
               /\ last_call.d.confidence_score >= 50000
               /\ RowOf(tweets, last_call.d.tweet_id).is_active
               /\ Cardinality({ i \in m :
                      /\ tweets[i].tweet_id # last_call.d.tweet_id
                      /\ tweets[i].tweet_timestamp >=
                            RowOf(tweets, last_call.d.tweet_id).tweet_timestamp })
                    < call.limit)
              => last_call.d.tweet_id \in ReturnedIds

\* Two active verified rows are stored, the one upserted last is the more
\* recent, and the read with limit 1 returns it alone.
C20_Witness ==
    /\ call.op = "get_verified_tweets"
    /\ call.db = "ok"
    /\ call.limit = 1
    /\ call.min_confidence = 50000
    /\ call.category = "all"
    /\ Cardinality(Matching(call.op, call.min_confidence, call.category)) = 2
    /\ last_call.ret = "True"
    /\ last_call.d.classification_label = "verified"
    /\ Len(call.result) = 1
    /\ call.result[1].tweet_id = last_call.d.tweet_id
    /\ \E i \in 1..Len(tweets) : tweets[i].tweet_timestamp < call.result[1].tweet_timestamp

(***************************************************************************)
(* C21: the statistics, under SpecStats.                                   *)
(***************************************************************************)
\* The active rows processed at most 24 hours before the clock's time.
RecentActive ==
    { i \in 1..Len(tweets) :
        tweets[i].is_active /\ (clock - tweets[i].processed_at) * TickHours <= 24 }

RecentWithLabel(label) ==
    { i \in RecentActive : tweets[i].classification_label = label }

\* C21: statistics read from the database at the present time hold, for
\* each label, the number of active rows with that label processed within
\* the last 24 hours, with min confidence <= max confidence; the counts add
\* up to the number of such rows, each row being counted under its one
\* label; a label without such a row is not a key of the result.
C21_StatsMatchTable ==
    (call.op = "get_stats" /\ call.db = "ok" /\ call.last_updated = clock) =>
        /\ ~call.raised
        /\ DOMAIN call.stats = { tweets[i].classification_label : i \in RecentActive }
        /\ \A label \in DOMAIN call.stats :
              /\ call.stats[label].count = Cardinality(RecentWithLabel(label))
              /\ call.stats[label].count > 0
              /\ call.stats[label].min_confidence <= call.stats[label].max_confidence
              /\ \A i \in RecentWithLabel(label) :
                    /\ call.stats[label].min_confidence <= tweets[i].confidence_score
                    /\ tweets[i].confidence_score <= call.stats[label].max_confidence
        /\ call.total_processed = Cardinality(RecentActive)

\* A row processed before the window and a row upserted in it: the
\* statistics count the second alone.
C21_Witness ==
    /\ call.op = "get_stats"
    /\ call.db = "ok"
    /\ call.last_updated = clock
    /\ Len(tweets) = 2
    /\ \A i \in 1..2 : tweets[i].is_active
    /\ \E i \in 1..2 : tweets[i].processed_at < clock
    /\ last_call.ret = "True"
    /\ last_call.at = clock
    /\ call.total_processed = 1
    /\ DOMAIN call.stats = {last_call.d.classification_label}

(***************************************************************************)
(* C22, C23: the keyword fallback, under SpecKeywords.                     *)
(***************************************************************************)
\* The number of the keywords that occur in the text, whatever its case.
Hits(keywords, text) ==
    Cardinality({ keyword \in keywords : Contains(Lower(text.v), keyword) })

KeywordCallOnStr == call.op = "classify_text_keywords" /\ call.text.type = "str"

\* C22: with v verified keywords and r rumor keywords in the text, not both
\* zero: v > r gives verified with confidence
\* min(0.95, 0.60 + 0.08 v + min(0.15, words / 200)); r > v gives rumor with
\* confidence min(0.90, 0.55 + 0.06 r + min(0.10, 0.03 r)); v = r gives rumor
\* with a confidence in [0.50, 0.65].
C22_KeywordFormulas ==
    KeywordCallOnStr =>
        LET v == Hits(verified_keywords, call.text)
            r == Hits(rumor_keywords, call.text)
            bonus == IF WordCount(call.text.v) * 500 < 15000
                     THEN WordCount(call.text.v) * 500 ELSE 15000
            penalty == IF r * 3000 < 10000 THEN r * 3000 ELSE 10000
            capped(limit, c) == IF c < limit THEN c ELSE limit
        IN /\ (v > r) =>
                /\ call.result.label = "verified"
                /\ call.result.confidence = capped(95000, 60000 + 8000 * v + bonus)
           /\ (r > v) =>
                /\ call.result.label = "rumor"
                /\ call.result.confidence = capped(90000, 55000 + 6000 * r + penalty)
           /\ (v = r /\ v > 0) =>
                /\ call.result.label = "rumor"
                /\ call.result.confidence >= 50000
                /\ call.result.confidence <= 65000

\* Two verified keywords and no rumor keyword: 0.60 + 0.16 + 2/200.
C22_Witness ==
    /\ KeywordCallOnStr
    /\ call.text.v = "USGS police"
    /\ call.result = [label |-> "verified", confidence |-> 77000]

\* C23: with no verified and no rumor keyword in the text: an authority
\* term (official, government, emergency) gives verified with a confidence
\* in [0.70, 0.90]; without one, more news indicators than uncertainty
\* indicators give verified with a confidence in [0.55, 0.85], and as many
\* or fewer give rumor with a confidence in [0.40, 0.75]; for every value
\* of random.random().
C23_NoKeywordRanges ==
    (/\ KeywordCallOnStr
     /\ Hits(verified_keywords, call.text) = 0
     /\ Hits(rumor_keywords, call.text) = 0) =>
        LET authority == Hits({"official", "government", "emergency"}, call.text) > 0
            news == Hits({"breaking", "reported", "according to", "sources say",
                          "confirmed"}, call.text)
            uncertainty == Hits({"might", "could", "possibly", "allegedly",
                                 "reportedly"}, call.text)
        IN /\ authority =>
                /\ call.result.label = "verified"
                /\ call.result.confidence >= 70000
                /\ call.result.confidence <= 90000
           /\ (~authority /\ news > uncertainty) =>
                /\ call.result.label = "verified"
                /\ call.result.confidence >= 55000
                /\ call.result.confidence <= 85000
           /\ (~authority /\ news <= uncertainty) =>
                /\ call.result.label = "rumor"
                /\ call.result.confidence >= 40000
                /\ call.result.confidence <= 75000

\* The authority term emergency alone, with the largest random value.
C23_Witness ==
    /\ KeywordCallOnStr
    /\ call.text.v = "emergency"
    /\ call.rnd = 99900
    /\ call.result.label = "verified"
    /\ call.result.confidence > 89000

(***************************************************************************)
(* C24: the body in the normalizer's output, under SpecNormalize.          *)
(***************************************************************************)
\* C24 as claimed: a body of 50 characters or fewer contributes nothing to
\* the output of clean_reddit_text, which is then the output for the title
\* with an empty body, and a body adds at most 300 characters and a blank.
C24_BodyAppendedWhenSubstantive ==
    (call.op = "clean_reddit_text" /\ ~call.raised /\ call.selftext.type = "str") =>
        /\ Len(call.selftext.v) <= 50 =>
              call.value = CleanResultOf[call.title, Str("")].value
        /\ Len(call.value) <= Len(CleanResultOf[call.title, Str("")].value) + 301

(***************************************************************************)
(* C25 - C27: what the cycles store, under SpecCycle.                      *)
(***************************************************************************)
\* C25: a post whose cleaned text has fewer than 20 characters enters no
\* batch of a cycle, so that it is neither classified nor upserted, and every
\* row of the table has a text of at least 20 characters.
C25_ShortTextDropped ==
    /\ \A t \in Tasks :
          /\ \A i \in 1..Len(cyc[t].all_posts) :
                Len(Strip(cyc[t].all_posts[i].text)) >= 20
          /\ \A i \in 1..Len(cyc[t].unique_posts) :
                Len(Strip(cyc[t].unique_posts[i].text)) >= 20
    /\ \A i \in 1..Len(tweets) : Len(Strip(tweets[i].text)) >= 20

\* A cycle has fetched the post 'Storm' from one channel and a long post
\* from another, has stored the long one alone and has ended.
C25_Witness ==
    \E t \in Tasks :
        /\ cyc[t].pc = "report"
        /\ cyc[t].failed = {}
        /\ cyc[t].skipped
        /\ cyc[t].results = <<"True">>
        /\ Len(tweets) = 1

(***************************************************************************)
(* C26, C27: what the upserts store, under SpecStore.                      *)
(***************************************************************************)
UpsertStep == last_call'.n = last_call.n + 1

\* C26: every row of the table has the label verified or rumor; an upsert
\* with the label unknown returns False when the database is reached, never
\* returns True, is not counted as processed, and leaves the table as it is.
C26_UnknownRejected ==
    /\ [](\A i \in 1..Len(tweets) :
             tweets[i].classification_label \in {"verified", "rumor"})
    /\ [][(UpsertStep /\ last_call'.ret # "True"
             /\ last_call'.d.classification_label = "unknown") =>
            /\ (last_call'.d.db = "ok" => last_call'.ret = "False")
            /\ \A count \in 0..MaxBatch :
                  CountProcessed(count, last_call'.ret) = count
            /\ tweets' = tweets]_vars
    /\ [][(UpsertStep /\ last_call'.ret = "True") =>
            last_call'.d.classification_label \in {"verified", "rumor"}]_vars

\* A row is stored and a later upsert with the label unknown, on a database
\* that works, has returned False.
C26_Witness ==
    /\ Len(tweets) = 1
    /\ last_call.ret = "False"
    /\ last_call.d.classification_label = "unknown"
    /\ last_call.d.db = "ok"

\* C27 as claimed: the category of every row of the table is
\* detect_disaster_category of the text of the row.
C27_CategoryOfStoredText ==
    \A i \in 1..Len(tweets) :
        tweets[i].category = detect_disaster_category(tweets[i].text)

(***************************************************************************)
(* C28: GET /reddit/disaster-news, under SpecQuery.                        *)
(***************************************************************************)
\* The active rows of at least min_confidence and, when a category other
\* than "all" is asked for, of that category.
Qualifying(min_confidence, category) ==
    { i \in 1..Len(tweets) :
        /\ tweets[i].is_active
        /\ tweets[i].confidence_score * 10 >= min_confidence
        /\ (category # "all" => tweets[i].category = category) }

\* C28 as claimed: a read of the disaster news that the database serves
\* returns only rows of at least min_confidence, and returns min(limit,
\* number of qualifying rows) of the qualifying rows, the most recent ones.
C28_DisasterNewsKeepsQualifying ==
    (call.op = "get_disaster_news" /\ call.db = "ok") =>
        LET q == Qualifying(call.min_confidence, call.category)
            n == Len(call.result)
        IN /\ \A k \in 1..n : call.result[k].confidence_score * 10 >= call.min_confidence
           /\ \A k \in 1..n : \E i \in q : call.result[k].tweet_id = tweets[i].tweet_id
           /\ n = Min(call.limit, Cardinality(q))
           /\ \A i \in q : tweets[i].tweet_id \notin ReturnedIds =>
                 \A k \in 1..n : call.result[k].tweet_timestamp >= tweets[i].tweet_timestamp

(***************************************************************************)
(* C29: POST /clear-database, under SpecClear.                             *)
(***************************************************************************)
\* C29 as claimed: after a call of clear_database that the database
\* serves, the tweets table has no rows and the status is success; after a
\* call that answers status error, the tweets table is what it was.
C29_ClearDatabaseClears ==
    call.op = "clear_database" =>
        /\ call.db = "ok" => (call.status = "success" /\ tweets = <<>>)
        /\ call.status = "error" => tweets = call.before

(***************************************************************************)
(* C30: the image of a post in the responses of the read endpoints, under  *)
(* SpecQuery.                                                              *)
(***************************************************************************)
\* The last call of insert_tweet stored a new record.
StoredNew == last_call.ret = "True" /\ last_call.before = NoRow

\* C30 as claimed: when a read endpoint returns the record the last cycle
\* step stored, its image_url is the image URL extracted from the post.
C30_ImageUrlReturned ==
    (call.op \in ReadOps \cup {"get_disaster_news"} /\ StoredNew) =>
        \A k \in 1..Len(call.posts) :
            call.posts[k].id = last_call.d.tweet_id =>
                call.posts[k].image_url = last_call.d.image_url

====
